---- MODULE Spec2Model ----
(***************************************************************************)
(* Model of the shared support library of rust_aoc_2024:                   *)
(*   - aoc::dijkstra::dijkstra over a DijkstraController (dijkstra.rs)     *)
(*   - aoc::grid::Grid and aoc::grid::GridBuilder (grid.rs)                *)
(* Option<T> values are modelled as sequences: <<>> is None, <<v>> is      *)
(* Some(v).                                                                *)
(***************************************************************************)
EXTENDS Integers, Sequences, FiniteSets, TLC

\* ---------------------------------------------------------------- bounds
\* rows appended to a GridBuilder are at most MaxWidth long
MaxWidth == 2
\* a GridBuilder takes at most MaxHeight rows
MaxHeight == 2
\* grid elements are 0..MaxVal
MaxVal == 1
\* the grids that are read through the checked accessors and written to have
\* at most MaxCells cells
MaxCells == 4
\* the grids that are cloned have at most MaxCloneCells cells
MaxCloneCells == 2
\* the maps of the day-16 mazes have at most MaxMazeCells cells
MaxMazeCells == 4
\* the sampled generations lie within MaxSpan of their reference values
MaxSpan == 2
\* the day-15 warehouses have at most MaxInterior cells inside their border
MaxInterior == 4
\* nodes of the controller's graph are 0..MaxNode
MaxNode == 2
\* edge weights are 0..MaxWeight
MaxWeight == 1
\* total number of (neighbor, distance) entries over all neighbor lists
MaxEdges == 3

\* usize::MAX, the "unreachable" sentinel; represented by the largest
\* integer the model checker handles
USIZE_MAX == 2147483647

Nodes == 0..MaxNode
Weights == 0..MaxWeight

VARIABLES
    graph,               \* controller: node -> Vec<(Node, usize)>
    target_node,         \* controller.get_target_node()
    finalized_nodes,     \* HashSet<Node>
    unvisited_frontier,  \* HashMap<Node, (usize, Option<Node>)>
    current,             \* (current_node, current_distance, previous_node)
    neighbors,           \* the part of `neighbors` the for loop has not consumed
    marks,               \* the mark_visited_distance calls, in order
    expanded,            \* the get_neighbors_distances calls, in order
    ret,                 \* Option of the value returned by dijkstra()
    pc,                  \* position in dijkstra()
    filtered,            \* the same run over the pre-filtering controller
    gb,                  \* the GridBuilder: width, height, s
    grid,                \* the Grid: width, height, s
    rows,                \* the rows appended to the builder, in order
    res,                 \* the last call on the builder or the grid and its outcome
    gpc,                 \* what the caller holds: "builder", "grid", or "panic"
    grid2,               \* the Grid made by grid.clone(), NoGrid before
    maze,                \* the day-16 Maze controller, NoMaze before new_from_map
    bis,                 \* day-18 main, part 2: the bisection and its inputs
    wh                   \* day-15 main: the warehouse, its boxes and the robot

dvars == <<graph, target_node, finalized_nodes, unvisited_frontier, current,
           neighbors, marks, expanded, ret, pc, filtered>>

gvars == <<gb, grid, rows, res, gpc, grid2>>

\* the state of the callers of the library
cvars == <<maze, bis, wh>>

vars == <<dvars, gvars, cvars>>

\* ------------------------------------------------------------------ grid
Vals == 0..MaxVal

\* the rows a caller can append
Lines == UNION {[1..n -> Vals] : n \in 0..MaxWidth}

\* the decimal digits, and char::to_digit(10): Some(digit) or None
Digits == <<"0", "1", "2", "3", "4", "5", "6", "7", "8", "9">>

to_digit(c) ==
    IF \E d \in 1..Len(Digits) : Digits[d] = c
    THEN <<(CHOOSE d \in 1..Len(Digits) : Digits[d] = c) - 1>>
    ELSE << >>

\* the characters of the lines a caller parses: the digits of Vals and one
\* character that is no digit
Chars == {Digits[v + 1] : v \in Vals} \cup {"#"}

\* the &str lines a caller can append
Strs == UNION {[1..n -> Chars] : n \in 0..MaxWidth}

\* the true_char a caller of GridBuilder<bool>::append_char_map passes
TrueChars == {"#", "1"}

\* a zeroed buffer in the place of vec![t0; n]
RepeatZero(t0, n) == [i \in 1..n |-> 0]

\* vec![t0; n]
Repeat(t0, n) == [i \in 1..n |-> t0]

\* s[i], zero-based: the element, or no value when the index panics
Index(s, i) == IF i < Len(s) THEN <<s[i + 1]>> ELSE << >>

\* &s[a..b], zero-based and half-open: the slice, or no value when the range
\* panics
SliceRange(s, a, b) ==
    IF a > b \/ b > Len(s) THEN << >> ELSE <<SubSeq(s, a + 1, b)>>

\* Grid::get: Some(value), or no value for the panic
get(g, x, y) ==
    IF x >= g.width \/ y >= g.height
    THEN << >>
    ELSE Index(g.s, x + y * g.width)

\* Grid::get_row_slice: the slice, or no value for a panic
get_row_slice(g, y) ==
    IF y >= g.height
    THEN << >>
    ELSE SliceRange(g.s, y * g.width, y * g.width + g.height)

NoGrid == [width |-> 0, height |-> 0, s |-> << >>]

\* Grid::new allocating width + height elements
new_with_sum(width, height, t0) ==
    [width |-> width, height |-> height, s |-> Repeat(t0, width + height)]

\* Grid::new
new(width, height, t0) ==
    [width |-> width, height |-> height, s |-> Repeat(t0, width * height)]

\* checked_get with > in the place of >=
checked_get_inclusive(g, x, y) ==
    IF x < 0 \/ y < 0 \/ x > g.width \/ y > g.height
    THEN << << >> >>
    ELSE IF Index(g.s, x + y * g.width) = << >>
         THEN << >>
         ELSE <<Index(g.s, x + y * g.width)>>

\* Grid::checked_get: <<None>> or <<Some(value)>>, or no value if the index
\* panics
checked_get(g, x, y) ==
    IF x < 0 \/ y < 0 \/ x >= g.width \/ y >= g.height
    THEN << << >> >>
    ELSE IF Index(g.s, x + y * g.width) = << >>
         THEN << >>
         ELSE <<Index(g.s, x + y * g.width)>>

\* Grid::get_mut: <<None>> or <<Some(i)>>, i the index of the cell the
\* reference points at, or no value if the index panics
get_mut(g, x, y) ==
    IF x < 0 \/ y < 0 \/ x >= g.width \/ y >= g.height
    THEN << << >> >>
    ELSE IF x + y * g.width < Len(g.s)
         THEN << <<x + y * g.width>> >>
         ELSE << >>

\* *r = t through the reference get_mut returned
write_ref(g, i, t) == [g EXCEPT !.s[i + 1] = t]

\* set with a column-major index
set_column_major(g, x, y, t) ==
    IF x >= g.width \/ y >= g.height
    THEN << >>
    ELSE IF y + x * g.height < Len(g.s)
         THEN <<[g EXCEPT !.s[y + x * g.height + 1] = t]>>
         ELSE << >>

\* Grid::set: the grid after the call, or no value for a panic
set(g, x, y, t) ==
    IF x >= g.width \/ y >= g.height
    THEN << >>
    ELSE IF x + y * g.width < Len(g.s)
         THEN <<[g EXCEPT !.s[x + y * g.width + 1] = t]>>
         ELSE << >>

\* Grid::fill
fill(g, t) == [g EXCEPT !.s = [i \in 1..Len(g.s) |-> t]]

\* values_equal comparing the two Options
values_equal_options(g, x1, y1, x2, y2) ==
    LET v1 == checked_get(g, x1, y1)
        v2 == checked_get(g, x2, y2)
    IN IF v1 = << >> \/ v2 = << >> THEN << >>
       ELSE IF v1[1] = << >> \/ v2[1] = << >> THEN <<v1[1] = << >> /\ v2[1] = << >> >>
       ELSE <<v1[1][1] = v2[1][1]>>

\* Grid::values_equal: <<bool>>, or no value if a checked_get panics
values_equal(g, x1, y1, x2, y2) ==
    LET v1 == checked_get(g, x1, y1)
        v2 == checked_get(g, x2, y2)
    IN IF v1 = << >> THEN << >>
       ELSE IF v1[1] = << >> THEN <<FALSE>>
       ELSE IF v2 = << >> THEN << >>
       ELSE IF v2[1] = << >> THEN <<FALSE>>
       ELSE <<v1[1][1] = v2[1][1]>>

\* Grid::from_vec, the inner loop from element x of row y on; g is the grid
\* so far, or no value once a set has panicked
RECURSIVE from_vec_row(_, _, _, _)
from_vec_row(g, row, x, y) ==
    IF g = << >> \/ x >= Len(row)
    THEN g
    ELSE from_vec_row(set(g[1], x, y, row[x + 1]), row, x + 1, y)

\* Grid::from_vec, the outer loop from row y on
RECURSIVE from_vec_rows(_, _, _)
from_vec_rows(g, v, y) ==
    IF g = << >> \/ y >= Len(v)
    THEN g
    ELSE from_vec_rows(from_vec_row(g, v[y + 1], 0, y), v, y + 1)

\* Grid::from_vec: the grid, or no value for a panic (v[0][0] included)
from_vec(v) ==
    IF Index(v, 0) = << >> THEN << >>
    ELSE IF Index(v[1], 0) = << >> THEN << >>
    ELSE from_vec_rows(<<new(Len(v[1]), Len(v), v[1][1])>>, v, 0)

\* #[derive(Clone)]: the same width and height and a buffer of its own
\* holding a clone of every element
clone(g) ==
    [width |-> g.width, height |-> g.height, s |-> [i \in 1..Len(g.s) |-> g.s[i]]]

\* GridBuilder::new
GridBuilderNew == [width |-> 0, height |-> 0, s |-> << >>]

\* append_line without the test of the row length
AppendLineNoWidthCheck(line, max) ==
    /\ gpc = "builder"
    /\ gb.height < MaxHeight
    /\ Len(gb.s) + Len(line) <= max
    /\ gb' = [width |-> IF gb.height = 0 THEN Len(line) ELSE gb.width,
              height |-> gb.height + 1,
              s |-> gb.s \o line]
    /\ rows' = Append(rows, line)
    /\ res' = [call |-> "append_line", args |-> <<line>>, out |-> <<TRUE>>]
    /\ UNCHANGED <<gpc, grid, grid2>>
    /\ UNCHANGED dvars
    /\ UNCHANGED cvars

\* GridBuilder::append_line, by a caller whose rows hold up to max elements
\* in all
AppendLineWithin(line, max) ==
    /\ gpc = "builder"
    /\ gb.height < MaxHeight
    /\ Len(gb.s) + Len(line) <= max
    /\ IF gb.height # 0 /\ gb.width # Len(line)
       THEN /\ gpc' = "panic"
            /\ res' = [call |-> "append_line", args |-> <<line>>, out |-> << >>]
            /\ UNCHANGED <<gb, rows>>
       ELSE /\ gb' = [width |-> IF gb.height = 0 THEN Len(line) ELSE gb.width,
                      height |-> gb.height + 1,
                      s |-> gb.s \o line]
            /\ rows' = Append(rows, line)
            /\ res' = [call |-> "append_line", args |-> <<line>>, out |-> <<TRUE>>]
            /\ UNCHANGED gpc
    /\ UNCHANGED <<grid, grid2>>
    /\ UNCHANGED dvars
    /\ UNCHANGED cvars

AppendLine(line) == AppendLineWithin(line, MaxWidth * MaxHeight)

\* GridBuilder<bool>::append_char_map; the element true is 1 and false is 0,
\* as in the `as u8` casts of the source
AppendCharMapBool(line, true_char) ==
    /\ gpc = "builder"
    /\ gb.height < MaxHeight
    /\ LET bools == [i \in 1..Len(line) |-> IF line[i] = true_char THEN 1 ELSE 0]
       IN IF gb.height # 0 /\ gb.width # Len(bools)
          THEN /\ gpc' = "panic"
               /\ res' = [call |-> "append_char_map_bool", args |-> <<line, true_char>>,
                          out |-> << >>]
               /\ UNCHANGED <<gb, rows>>
          ELSE /\ gb' = [width |-> IF gb.height = 0 THEN Len(bools) ELSE gb.width,
                         height |-> gb.height + 1,
                         s |-> gb.s \o bools]
               /\ rows' = Append(rows, bools)
               /\ res' = [call |-> "append_char_map_bool", args |-> <<line, true_char>>,
                          out |-> <<TRUE>>]
               /\ UNCHANGED gpc
    /\ UNCHANGED <<grid, grid2>>
    /\ UNCHANGED dvars
    /\ UNCHANGED cvars

\* GridBuilder<usize>::append_char_map: to_digit(10).unwrap() panics on the
\* first character that is no digit, before anything is stored
AppendCharMap(line) ==
    /\ gpc = "builder"
    /\ gb.height < MaxHeight
    /\ IF \E i \in 1..Len(line) : to_digit(line[i]) = << >>
       THEN /\ gpc' = "panic"
            /\ res' = [call |-> "append_char_map", args |-> <<line>>, out |-> << >>]
            /\ UNCHANGED <<gb, rows>>
       ELSE LET digits == [i \in 1..Len(line) |-> to_digit(line[i])[1]]
            IN IF gb.height # 0 /\ gb.width # Len(digits)
               THEN /\ gpc' = "panic"
                    /\ res' = [call |-> "append_char_map", args |-> <<line>>,
                               out |-> << >>]
                    /\ UNCHANGED <<gb, rows>>
               ELSE /\ gb' = [width |-> IF gb.height = 0 THEN Len(digits) ELSE gb.width,
                              height |-> gb.height + 1,
                              s |-> gb.s \o digits]
                    /\ rows' = Append(rows, digits)
                    /\ res' = [call |-> "append_char_map", args |-> <<line>>,
                               out |-> <<TRUE>>]
                    /\ UNCHANGED gpc
    /\ UNCHANGED <<grid, grid2>>
    /\ UNCHANGED dvars
    /\ UNCHANGED cvars

\* GridBuilder::to_grid
ToGrid ==
    /\ gpc = "builder"
    /\ IF gb.s = << >>
       THEN /\ gpc' = "panic"
            /\ res' = [call |-> "to_grid", args |-> << >>, out |-> << >>]
            /\ UNCHANGED grid
       ELSE /\ grid' = [width |-> gb.width, height |-> gb.height, s |-> gb.s]
            /\ gpc' = "grid"
            /\ res' = [call |-> "to_grid", args |-> << >>, out |-> <<TRUE>>]
    /\ UNCHANGED <<gb, rows, grid2>>
    /\ UNCHANGED dvars
    /\ UNCHANGED cvars

\* Grid::new, by a caller whose grids have up to max cells
GridNewWithin(width, height, t0, max) ==
    /\ gpc = "builder"
    /\ gb = GridBuilderNew
    /\ width * height <= max
    /\ grid' = new(width, height, t0)
    /\ gpc' = "grid"
    /\ res' = [call |-> "new", args |-> <<width, height, t0>>, out |-> <<TRUE>>]
    /\ UNCHANGED <<gb, rows, grid2>>
    /\ UNCHANGED dvars
    /\ UNCHANGED cvars

GridNew(width, height, t0) == GridNewWithin(width, height, t0, MaxWidth * MaxHeight)

\* a call of Grid::get
CallGet(x, y) ==
    /\ gpc = "grid"
    /\ res' = [call |-> "get", args |-> <<x, y>>, out |-> get(grid, x, y)]
    /\ gpc' = IF get(grid, x, y) = << >> THEN "panic" ELSE "grid"
    /\ UNCHANGED <<gb, grid, rows, grid2>>
    /\ UNCHANGED dvars
    /\ UNCHANGED cvars

\* a call of Grid::get_row_slice
CallGetRowSlice(y) ==
    /\ gpc = "grid"
    /\ res' = [call |-> "get_row_slice", args |-> <<y>>, out |-> get_row_slice(grid, y)]
    /\ gpc' = IF get_row_slice(grid, y) = << >> THEN "panic" ELSE "grid"
    /\ UNCHANGED <<gb, grid, rows, grid2>>
    /\ UNCHANGED dvars
    /\ UNCHANGED cvars

\* the caller's builder and its record of the appended rows are gone once
\* the grid is written to (to_grid consumed the builder)
BuilderGone == gb' = GridBuilderNew /\ rows' = << >>

\* Grid::from_vec, by a caller whose grids have up to max cells
FromVecWithin(v, max) ==
    /\ gpc = "builder"
    /\ gb = GridBuilderNew
    /\ IF Len(v) = 0 THEN TRUE ELSE Len(v[1]) * Len(v) <= max
    /\ IF from_vec(v) = << >>
       THEN /\ gpc' = "panic"
            /\ res' = [call |-> "from_vec", args |-> <<v>>, out |-> << >>]
            /\ UNCHANGED grid
       ELSE /\ grid' = from_vec(v)[1]
            /\ gpc' = "grid"
            /\ res' = [call |-> "from_vec", args |-> <<v>>, out |-> <<TRUE>>]
    /\ UNCHANGED <<gb, rows, grid2>>
    /\ UNCHANGED dvars
    /\ UNCHANGED cvars

\* a call of Grid::checked_get
CallCheckedGet(x, y) ==
    /\ gpc = "grid"
    /\ res' = [call |-> "checked_get", args |-> <<x, y>>, out |-> checked_get(grid, x, y)]
    /\ gpc' = IF checked_get(grid, x, y) = << >> THEN "panic" ELSE "grid"
    /\ UNCHANGED <<gb, grid, rows, grid2>>
    /\ UNCHANGED dvars
    /\ UNCHANGED cvars

\* a call of Grid::values_equal
CallValuesEqual(x1, y1, x2, y2) ==
    /\ gpc = "grid"
    /\ res' = [call |-> "values_equal", args |-> <<x1, y1, x2, y2>>,
               out |-> values_equal(grid, x1, y1, x2, y2)]
    /\ gpc' = IF values_equal(grid, x1, y1, x2, y2) = << >> THEN "panic" ELSE "grid"
    /\ UNCHANGED <<gb, grid, rows, grid2>>
    /\ UNCHANGED dvars
    /\ UNCHANGED cvars

\* a call of Grid::set
CallSet(x, y, t) ==
    /\ gpc = "grid"
    /\ IF set(grid, x, y, t) = << >>
       THEN /\ gpc' = "panic"
            /\ res' = [call |-> "set", args |-> <<x, y, t>>, out |-> << >>]
            /\ UNCHANGED grid
       ELSE /\ grid' = set(grid, x, y, t)[1]
            /\ res' = [call |-> "set", args |-> <<x, y, t>>, out |-> <<TRUE>>]
            /\ UNCHANGED gpc
    /\ BuilderGone
    /\ UNCHANGED grid2
    /\ UNCHANGED dvars
    /\ UNCHANGED cvars

\* a call of Grid::get_mut; the caller holds the Option it returned
CallGetMut(x, y) ==
    /\ gpc = "grid"
    /\ res' = [call |-> "get_mut", args |-> <<x, y>>, out |-> get_mut(grid, x, y)]
    /\ gpc' = IF get_mut(grid, x, y) = << >> THEN "panic" ELSE "grid"
    /\ UNCHANGED <<gb, grid, rows, grid2>>
    /\ UNCHANGED dvars
    /\ UNCHANGED cvars

\* the caller writes through the reference it holds: *r = t
WriteRef(t) ==
    /\ gpc = "grid"
    /\ res.call = "get_mut"
    /\ res.out # << >>
    /\ res.out[1] # << >>
    /\ grid' = write_ref(grid, res.out[1][1], t)
    /\ res' = [call |-> "write_ref", args |-> <<res.args[1], res.args[2], t>>,
               out |-> <<TRUE>>]
    /\ BuilderGone
    /\ UNCHANGED <<gpc, grid2>>
    /\ UNCHANGED dvars
    /\ UNCHANGED cvars

\* a call of Grid::fill
CallFill(t) ==
    /\ gpc = "grid"
    /\ grid' = fill(grid, t)
    /\ res' = [call |-> "fill", args |-> <<t>>, out |-> <<TRUE>>]
    /\ BuilderGone
    /\ UNCHANGED <<gpc, grid2>>
    /\ UNCHANGED dvars
    /\ UNCHANGED cvars

\* let mut g2 = grid.clone()
Clone ==
    /\ gpc = "grid"
    /\ grid2' = clone(grid)
    /\ res' = [call |-> "clone", args |-> << >>, out |-> <<TRUE>>]
    /\ UNCHANGED <<gb, grid, rows, gpc>>
    /\ UNCHANGED dvars
    /\ UNCHANGED cvars

\* g2.set(x, y, t) on a clone that shares the buffer of the original
CloneSetShared(x, y, t) ==
    /\ gpc = "grid"
    /\ grid2 # NoGrid
    /\ IF set(grid2, x, y, t) = << >>
       THEN /\ gpc' = "panic"
            /\ res' = [call |-> "g2.set", args |-> <<x, y, t>>, out |-> << >>]
            /\ UNCHANGED <<grid, grid2>>
       ELSE /\ grid2' = set(grid2, x, y, t)[1]
            /\ grid' = set(grid2, x, y, t)[1]
            /\ res' = [call |-> "g2.set", args |-> <<x, y, t>>, out |-> <<TRUE>>]
            /\ UNCHANGED gpc
    /\ UNCHANGED <<gb, rows>>
    /\ UNCHANGED dvars
    /\ UNCHANGED cvars

\* g2.set(x, y, t)
CloneSet(x, y, t) ==
    /\ gpc = "grid"
    /\ grid2 # NoGrid
    /\ IF set(grid2, x, y, t) = << >>
       THEN /\ gpc' = "panic"
            /\ res' = [call |-> "g2.set", args |-> <<x, y, t>>, out |-> << >>]
            /\ UNCHANGED grid2
       ELSE /\ grid2' = set(grid2, x, y, t)[1]
            /\ res' = [call |-> "g2.set", args |-> <<x, y, t>>, out |-> <<TRUE>>]
            /\ UNCHANGED gpc
    /\ UNCHANGED <<gb, grid, rows>>
    /\ UNCHANGED dvars
    /\ UNCHANGED cvars

\* g2.get_mut(x, y)
CloneGetMut(x, y) ==
    /\ gpc = "grid"
    /\ grid2 # NoGrid
    /\ res' = [call |-> "g2.get_mut", args |-> <<x, y>>, out |-> get_mut(grid2, x, y)]
    /\ gpc' = IF get_mut(grid2, x, y) = << >> THEN "panic" ELSE "grid"
    /\ UNCHANGED <<gb, grid, rows, grid2>>
    /\ UNCHANGED dvars
    /\ UNCHANGED cvars

\* *r = t through the reference g2.get_mut returned
CloneWriteRef(t) ==
    /\ gpc = "grid"
    /\ res.call = "g2.get_mut"
    /\ res.out # << >>
    /\ res.out[1] # << >>
    /\ grid2' = write_ref(grid2, res.out[1][1], t)
    /\ res' = [call |-> "g2.write_ref", args |-> <<res.args[1], res.args[2], t>>,
               out |-> <<TRUE>>]
    /\ UNCHANGED <<gb, grid, rows, gpc>>
    /\ UNCHANGED dvars
    /\ UNCHANGED cvars

\* g2.fill(t)
CloneFill(t) ==
    /\ gpc = "grid"
    /\ grid2 # NoGrid
    /\ grid2' = fill(grid2, t)
    /\ res' = [call |-> "g2.fill", args |-> <<t>>, out |-> <<TRUE>>]
    /\ UNCHANGED <<gb, grid, rows, gpc>>
    /\ UNCHANGED dvars
    /\ UNCHANGED cvars

InitGrid ==
    /\ gb = GridBuilderNew
    /\ grid = NoGrid
    /\ rows = << >>
    /\ res = [call |-> "none", args |-> << >>, out |-> << >>]
    /\ gpc = "builder"
    /\ grid2 = NoGrid

NextGrid ==
    \/ \E line \in Lines : AppendLine(line)
    \/ \E line \in Strs, true_char \in TrueChars : AppendCharMapBool(line, true_char)
    \/ \E line \in Strs : AppendCharMap(line)
    \/ ToGrid
    \/ \E width \in 0..MaxWidth, height \in 0..MaxHeight, t0 \in Vals :
          GridNew(width, height, t0)
    \/ \E x \in 0..MaxWidth, y \in 0..MaxHeight : CallGet(x, y)
    \/ \E y \in 0..MaxHeight : CallGetRowSlice(y)

\* the signed coordinates a caller passes: one step off the grid on each side
SignedXs == -1..MaxWidth
SignedYs == -1..MaxHeight

\* the four cardinal directions of the neighbor comparisons
Cards == {<<-1, 0>>, <<1, 0>>, <<0, -1>>, <<0, 1>>}

\* the &[Vec<T>] a caller passes to from_vec
Vecs == UNION {[1..n -> Lines] : n \in 0..MaxHeight}

\* a call of Grid::from_vec in the place of the builder
FromVec ==
    /\ gpc = "builder"
    /\ gb = GridBuilderNew
    /\ \E v \in Vecs : FromVecWithin(v, MaxCells)

\* the grids of up to MaxCells cells, however constructed, read and written
NextGridOps ==
    \/ \E line \in Lines : AppendLineWithin(line, MaxCells)
    \/ ToGrid
    \/ \E width \in 0..MaxWidth, height \in 0..MaxHeight, t0 \in Vals :
          GridNewWithin(width, height, t0, MaxCells)
    \/ FromVec
    \/ \E x \in 0..MaxWidth, y \in 0..MaxHeight : CallGet(x, y)
    \/ \E x \in SignedXs, y \in SignedYs : CallCheckedGet(x, y)
    \/ \E x \in SignedXs, y \in SignedYs, d \in Cards :
          CallValuesEqual(x, y, x + d[1], y + d[2])
    \/ \E x \in 0..MaxWidth, y \in 0..MaxHeight, t \in Vals : CallSet(x, y, t)
    \/ \E x \in SignedXs, y \in SignedYs : CallGetMut(x, y)
    \/ \E t \in Vals : WriteRef(t)
    \/ \E t \in Vals : CallFill(t)

\* a grid of up to MaxCloneCells cells and its clone, both written to
NextGridClone ==
    \/ \E width \in 0..MaxWidth, height \in 0..MaxHeight, t0 \in Vals :
          GridNewWithin(width, height, t0, MaxCloneCells)
    \/ \E x \in 0..MaxWidth, y \in 0..MaxHeight, t \in Vals : CallSet(x, y, t)
    \/ \E x \in SignedXs, y \in SignedYs : CallGetMut(x, y)
    \/ \E t \in Vals : WriteRef(t)
    \/ \E t \in Vals : CallFill(t)
    \/ Clone
    \/ \E x \in 0..MaxWidth, y \in 0..MaxHeight, t \in Vals : CloneSet(x, y, t)
    \/ \E x \in SignedXs, y \in SignedYs : CloneGetMut(x, y)
    \/ \E t \in Vals : CloneWriteRef(t)
    \/ \E t \in Vals : CloneFill(t)

\* ------------------------------------------------------------ controller
\* BasicGraph::get_starting_node
get_starting_node == 0

\* BasicGraph::get_target_node: the last element of the graph
LastNode(g) == Cardinality(DOMAIN g) - 1

\* "a non-existant node if you want to map all the graph"
NonExistentNode(g) == Cardinality(DOMAIN g)

\* BasicGraph::get_neighbors_distances
get_neighbors_distances(node) == graph[node]

\* BasicGraph as the struct it is, c = [graph, path]: the neighbor list of
\* a node is read from c.graph
neighbors_of(c, node) == c.graph[node]

\* a mark_visited_distance that, besides recording, empties the neighbor
\* list of the node in the graph the controller answers from
mark_visited_distance_forgets(c, node, distance, previous) ==
    [graph |-> [c.graph EXCEPT ![node] = << >>],
     path |-> [m \in (DOMAIN c.path) \cup {node} |->
                  IF m = node THEN distance ELSE c.path[m]]]

\* BasicGraph::mark_visited_distance: self.path.insert(node, distance)
mark_visited_distance(c, node, distance, previous) ==
    [c EXCEPT !.path = [m \in (DOMAIN c.path) \cup {node} |->
                           IF m = node THEN distance ELSE c.path[m]]]

\* the mark_visited_distance of a controller with "an empty function"
mark_nothing(c, node, distance, previous) == c

\* the graph of test::basic_dijkstra, back-edges included
BasicGraph ==
    [n \in 0..4 |->
        CASE n = 0 -> << <<1, 1>>, <<2, 10>> >>
          [] n = 1 -> << <<0, 1>>, <<2, 10>>, <<3, 5>> >>
          [] n = 2 -> << <<1, 11>>, <<4, 1>> >>
          [] n = 3 -> << <<4, 6>> >>
          [] n = 4 -> << >>]

RECURSIVE TotalEdges(_, _)
TotalEdges(g, n) == IF n < 0 THEN 0 ELSE Len(g[n]) + TotalEdges(g, n - 1)

\* the largest node identifier the controller has handed out: the start node
\* or a node some neighbor list names
RECURSIVE MaxSeq(_)
MaxSeq(list) ==
    IF list = << >> THEN 0
    ELSE LET m == MaxSeq(Tail(list))
         IN IF Head(list)[1] > m THEN Head(list)[1] ELSE m

RECURSIVE KnownUpTo(_, _)
KnownUpTo(g, n) ==
    IF n < 0 THEN get_starting_node
    ELSE LET a == MaxSeq(g[n])
             b == KnownUpTo(g, n - 1)
         IN IF a > b THEN a ELSE b

LastKnown(g) == KnownUpTo(g, LastNode(g))

\* the caller assembles its graph before the run: one more neighbor entry,
\* up to max entries, in the list of a node the search can get to. Node is
\* opaque to the engine, so the caller numbers its nodes in the order it
\* first names them.
AddEdgeWithin(u, v, w, max) ==
    /\ pc = "setup"
    /\ DOMAIN graph = Nodes
    /\ TotalEdges(graph, MaxNode) < max
    /\ u <= LastKnown(graph)
    /\ v <= LastKnown(graph) + 1
    /\ graph' = [graph EXCEPT ![u] = Append(@, <<v, w>>)]
    /\ UNCHANGED <<target_node, finalized_nodes, unvisited_frontier, current,
                   neighbors, marks, expanded, ret, pc, filtered>>
    /\ UNCHANGED gvars
    /\ UNCHANGED cvars

AddEdge(u, v, w) == AddEdgeWithin(u, v, w, MaxEdges)

\* the graphs of the runs followed to their end have one entry fewer
AddEdgeFair(u, v, w) == AddEdgeWithin(u, v, w, MaxEdges - 1)

\* usize distances up to usize::MAX: a single step and the two largest
HeavyWeights == {1, USIZE_MAX - 1, USIZE_MAX}

\* a caller whose neighbor entries carry such distances
AddHeavyEdge(u, v, w) == AddEdgeWithin(u, v, w, MaxEdges)

\* the caller of test::basic_dijkstra
LoadBasicGraph ==
    /\ pc = "setup"
    /\ graph = [n \in Nodes |-> << >>]
    /\ graph' = BasicGraph
    /\ UNCHANGED <<target_node, finalized_nodes, unvisited_frontier, current,
                   neighbors, marks, expanded, ret, pc, filtered>>
    /\ UNCHANGED gvars
    /\ UNCHANGED cvars

\* a controller that filters its lists itself: no entry for the node itself,
\* none for a node already notified, no entry repeated
RECURSIVE PreFilter(_, _, _)
PreFilter(list, node, visited) ==
    IF list = << >> THEN << >>
    ELSE LET e == list[Len(list)]
             front == SubSeq(list, 1, Len(list) - 1)
         IN IF \/ e[1] = node
               \/ e[1] \in visited
               \/ \E i \in 1..Len(front) : front[i] = e
            THEN PreFilter(front, node, visited)
            ELSE Append(PreFilter(front, node, visited), e)

\* ---------------------------------------------------------------- engine
\* the addition of two usize values: whether it overflows, and the value it
\* has where the build lets it wrap (a build with overflow checks panics)
overflows(a, b) == a > USIZE_MAX - b

wrapping_add(a, b) == IF overflows(a, b) THEN a - (USIZE_MAX - b) - 1 ELSE a + b

\* max_by in the place of min_by
MaxEntries(frontier) ==
    {n \in DOMAIN frontier :
        \A m \in DOMAIN frontier : frontier[n].dist >= frontier[m].dist}

\* a selection that takes any frontier entry, smallest or not
AnyEntries(frontier) == DOMAIN frontier

\* the frontier entries min_by can return: any entry of smallest distance
\* (HashMap iteration order is unspecified)
MinEntries(frontier) ==
    {n \in DOMAIN frontier :
        \A m \in DOMAIN frontier : frontier[n].dist <= frontier[m].dist}

RemoveEntry(frontier, n) == [m \in (DOMAIN frontier) \ {n} |-> frontier[m]]

\* the for body without the update of an entry already in the frontier
RelaxOneNoUpdate(frontier, finalized, cur, next_node, dist) ==
    IF next_node \in finalized \/ next_node \in DOMAIN frontier
    THEN frontier
    ELSE [m \in (DOMAIN frontier) \cup {next_node} |->
             IF m = next_node
             THEN [dist |-> dist + cur.dist, prev |-> <<cur.node>>]
             ELSE frontier[m]]

\* the for body without the finalized_nodes test
RelaxOneNoFinalizedCheck(frontier, finalized, cur, next_node, dist) ==
    LET path_total_distance == dist + cur.dist
    IN IF next_node \in DOMAIN frontier
       THEN IF path_total_distance < frontier[next_node].dist
            THEN [frontier EXCEPT ![next_node] =
                     [dist |-> path_total_distance, prev |-> <<cur.node>>]]
            ELSE frontier
       ELSE [m \in (DOMAIN frontier) \cup {next_node} |->
                IF m = next_node
                THEN [dist |-> path_total_distance, prev |-> <<cur.node>>]
                ELSE frontier[m]]

\* the for body taking a distance of zero for "no edge"
RelaxOneSkipZero(frontier, finalized, cur, next_node, dist) ==
    IF next_node \in finalized \/ dist = 0
    THEN frontier
    ELSE LET path_total_distance == dist + cur.dist
         IN IF next_node \in DOMAIN frontier
            THEN IF path_total_distance < frontier[next_node].dist
                 THEN [frontier EXCEPT ![next_node] =
                          [dist |-> path_total_distance, prev |-> <<cur.node>>]]
                 ELSE frontier
            ELSE [m \in (DOMAIN frontier) \cup {next_node} |->
                     IF m = next_node
                     THEN [dist |-> path_total_distance, prev |-> <<cur.node>>]
                     ELSE frontier[m]]

\* the for body updating the distance of a known entry but not its
\* previous node
RelaxOneKeepsPrev(frontier, finalized, cur, next_node, dist) ==
    IF next_node \in finalized
    THEN frontier
    ELSE LET path_total_distance == dist + cur.dist
         IN IF next_node \in DOMAIN frontier
            THEN IF path_total_distance < frontier[next_node].dist
                 THEN [frontier EXCEPT ![next_node] =
                          [dist |-> path_total_distance, prev |-> @.prev]]
                 ELSE frontier
            ELSE [m \in (DOMAIN frontier) \cup {next_node} |->
                     IF m = next_node
                     THEN [dist |-> path_total_distance, prev |-> <<cur.node>>]
                     ELSE frontier[m]]

\* the for body overwriting a known entry on an equal distance too
RelaxOneOnEqual(frontier, finalized, cur, next_node, dist) ==
    IF next_node \in finalized
    THEN frontier
    ELSE LET path_total_distance == dist + cur.dist
         IN IF next_node \in DOMAIN frontier
            THEN IF path_total_distance <= frontier[next_node].dist
                 THEN [frontier EXCEPT ![next_node] =
                          [dist |-> path_total_distance, prev |-> <<cur.node>>]]
                 ELSE frontier
            ELSE [m \in (DOMAIN frontier) \cup {next_node} |->
                     IF m = next_node
                     THEN [dist |-> path_total_distance, prev |-> <<cur.node>>]
                     ELSE frontier[m]]

\* the frontier after the for body has handled one (next_node, dist) pair
RelaxOne(frontier, finalized, cur, next_node, dist) ==
    IF next_node \in finalized
    THEN frontier
    ELSE LET path_total_distance == wrapping_add(dist, cur.dist)
         IN IF next_node \in DOMAIN frontier
            THEN IF path_total_distance < frontier[next_node].dist
                 THEN [frontier EXCEPT ![next_node] =
                          [dist |-> path_total_distance, prev |-> <<cur.node>>]]
                 ELSE frontier
            ELSE [m \in (DOMAIN frontier) \cup {next_node} |->
                     IF m = next_node
                     THEN [dist |-> path_total_distance, prev |-> <<cur.node>>]
                     ELSE frontier[m]]

\* the frontier after the whole for loop over list
RECURSIVE RelaxAll(_, _, _, _)
RelaxAll(frontier, finalized, cur, list) ==
    IF list = << >> THEN frontier
    ELSE RelaxAll(RelaxOne(frontier, finalized, cur, Head(list)[1], Head(list)[2]),
                  finalized, cur, Tail(list))

\* dijkstra(), up to the loop
InitialFrontier == (get_starting_node :> [dist |-> 0, prev |-> << >>])

Start(t) ==
    /\ pc = "setup"
    /\ t <= LastKnown(graph) \/ t = NonExistentNode(graph)
    /\ finalized_nodes' = {}
    /\ unvisited_frontier' = InitialFrontier
    /\ target_node' = t
    /\ pc' = "loop"
    /\ filtered' = [frontier |-> InitialFrontier, finalized |-> {},
                    marks |-> << >>, ret |-> << >>]
    /\ UNCHANGED <<graph, current, neighbors, marks, expanded, ret>>
    /\ UNCHANGED gvars
    /\ UNCHANGED cvars

\* one whole loop iteration of the run over the pre-filtering controller,
\* selecting shortest_node
FilteredVisit(f, shortest_node) ==
    IF shortest_node \notin MinEntries(f.frontier) \/ f.ret # << >>
    THEN f
    ELSE LET e == f.frontier[shortest_node]
             cur == [node |-> shortest_node, dist |-> e.dist, prev |-> e.prev]
             fin == f.finalized \cup {shortest_node}
             rest == RemoveEntry(f.frontier, shortest_node)
             m == Append(f.marks, <<shortest_node, e.dist, e.prev>>)
         IN IF shortest_node = target_node
            THEN [frontier |-> rest, finalized |-> fin, marks |-> m,
                  ret |-> <<e.dist>>]
            ELSE [frontier |-> RelaxAll(rest, fin, cur,
                                  PreFilter(graph[shortest_node], shortest_node, fin)),
                  finalized |-> fin, marks |-> m, ret |-> << >>]

\* the loop iteration without the test for the target
VisitNoEarlyReturn(shortest_node) ==
    /\ pc = "loop"
    /\ unvisited_frontier # << >>
    /\ shortest_node \in MinEntries(unvisited_frontier)
    /\ unvisited_frontier' = RemoveEntry(unvisited_frontier, shortest_node)
    /\ finalized_nodes' = finalized_nodes \cup {shortest_node}
    /\ current' = [node |-> shortest_node,
                   dist |-> unvisited_frontier[shortest_node].dist,
                   prev |-> unvisited_frontier[shortest_node].prev]
    /\ marks' = Append(marks, <<shortest_node, unvisited_frontier[shortest_node].dist,
                                unvisited_frontier[shortest_node].prev>>)
    /\ neighbors' = IF shortest_node \in DOMAIN graph
                    THEN get_neighbors_distances(shortest_node) ELSE << >>
    /\ expanded' = Append(expanded, shortest_node)
    /\ pc' = "for"
    /\ filtered' = FilteredVisit(filtered, shortest_node)
    /\ UNCHANGED <<graph, target_node, ret>>
    /\ UNCHANGED gvars
    /\ UNCHANGED cvars

\* one loop iteration up to the for loop: select, remove, finalize, notify,
\* then return on the target or fetch the neighbors
Visit(shortest_node) ==
    /\ pc = "loop"
    /\ unvisited_frontier # << >>
    /\ shortest_node \in MinEntries(unvisited_frontier)
    /\ LET current_distance == unvisited_frontier[shortest_node].dist
           previous_node == unvisited_frontier[shortest_node].prev
       IN /\ unvisited_frontier' = RemoveEntry(unvisited_frontier, shortest_node)
          /\ finalized_nodes' = finalized_nodes \cup {shortest_node}
          /\ current' = [node |-> shortest_node, dist |-> current_distance,
                         prev |-> previous_node]
          /\ marks' = Append(marks, <<shortest_node, current_distance, previous_node>>)
          /\ IF shortest_node = target_node
             THEN /\ ret' = <<current_distance>>
                  /\ pc' = "done"
                  /\ UNCHANGED <<neighbors, expanded>>
             ELSE /\ neighbors' = get_neighbors_distances(shortest_node)
                  /\ expanded' = Append(expanded, shortest_node)
                  /\ pc' = "for"
                  /\ UNCHANGED ret
    /\ filtered' = FilteredVisit(filtered, shortest_node)
    /\ UNCHANGED <<graph, target_node>>
    /\ UNCHANGED gvars
    /\ UNCHANGED cvars

\* a for loop that handles the first entry of the list and drops the rest
RelaxFirstOnly ==
    /\ pc = "for"
    /\ neighbors # << >>
    /\ unvisited_frontier' = RelaxOne(unvisited_frontier, finalized_nodes, current,
                                      Head(neighbors)[1], Head(neighbors)[2])
    /\ neighbors' = << >>
    /\ UNCHANGED <<graph, target_node, finalized_nodes, current, marks, expanded,
                   ret, pc, filtered>>
    /\ UNCHANGED gvars
    /\ UNCHANGED cvars

\* an iteration that adds the distances before it looks whether the
\* neighbor is finalized
RelaxAddsFirst ==
    /\ pc = "for"
    /\ neighbors # << >>
    /\ pc' \in IF overflows(Head(neighbors)[2], current.dist)
                THEN {"panic", "for"} ELSE {"for"}
    /\ unvisited_frontier' =
          IF pc' = "panic" THEN unvisited_frontier
          ELSE RelaxOne(unvisited_frontier, finalized_nodes, current,
                        Head(neighbors)[1], Head(neighbors)[2])
    /\ neighbors' = IF pc' = "panic" THEN neighbors ELSE Tail(neighbors)
    /\ UNCHANGED <<graph, target_node, finalized_nodes, current, marks, expanded,
                   ret, filtered>>
    /\ UNCHANGED gvars
    /\ UNCHANGED cvars

\* one iteration of the for loop over the neighbors. Where the addition of
\* line 103 overflows, a build with overflow checks panics and a build
\* without them goes on with the wrapped sum.
Relax ==
    /\ pc = "for"
    /\ neighbors # << >>
    /\ pc' \in IF /\ Head(neighbors)[1] \notin finalized_nodes
                   /\ overflows(Head(neighbors)[2], current.dist)
                THEN {"panic", "for"} ELSE {"for"}
    /\ unvisited_frontier' =
          IF pc' = "panic" THEN unvisited_frontier
          ELSE RelaxOne(unvisited_frontier, finalized_nodes, current,
                        Head(neighbors)[1], Head(neighbors)[2])
    /\ neighbors' = IF pc' = "panic" THEN neighbors ELSE Tail(neighbors)
    /\ UNCHANGED <<graph, target_node, finalized_nodes, current, marks, expanded,
                   ret, filtered>>
    /\ UNCHANGED gvars
    /\ UNCHANGED cvars

\* the for loop is exhausted: back to the while condition
EndFor ==
    /\ pc = "for"
    /\ neighbors = << >>
    /\ pc' = "loop"
    /\ UNCHANGED <<graph, target_node, finalized_nodes, unvisited_frontier, current,
                   neighbors, marks, expanded, ret, filtered>>
    /\ UNCHANGED gvars
    /\ UNCHANGED cvars

\* the end of the loop returning the last distance found
ExhaustedReturnsLast ==
    /\ pc = "loop"
    /\ unvisited_frontier = << >>
    /\ ret' = <<current.dist>>
    /\ pc' = "done"
    /\ filtered' = IF filtered.frontier = << >> /\ filtered.ret = << >>
                   THEN [filtered EXCEPT !.ret = <<USIZE_MAX>>]
                   ELSE filtered
    /\ UNCHANGED <<graph, target_node, finalized_nodes, unvisited_frontier, current,
                   neighbors, marks, expanded>>
    /\ UNCHANGED gvars
    /\ UNCHANGED cvars

\* the frontier is empty: the loop ends and the sentinel is returned
Exhausted ==
    /\ pc = "loop"
    /\ unvisited_frontier = << >>
    /\ ret' = <<USIZE_MAX>>
    /\ pc' = "done"
    /\ filtered' = IF filtered.frontier = << >> /\ filtered.ret = << >>
                   THEN [filtered EXCEPT !.ret = <<USIZE_MAX>>]
                   ELSE filtered
    /\ UNCHANGED <<graph, target_node, finalized_nodes, unvisited_frontier, current,
                   neighbors, marks, expanded>>
    /\ UNCHANGED gvars
    /\ UNCHANGED cvars

\* ------------------------------------------------- day 16: Maze controller
\* no Maze constructed yet
NoMaze == [map |-> NoGrid, normal_direction |-> TRUE,
           real_start |-> << >>, real_target |-> << >>]

\* enum Direction and Direction::as_delta
Directions == {"Up", "Left", "Down", "Right"}

as_delta(d) ==
    CASE d = "Up" -> <<0, -1>>
      [] d = "Left" -> <<-1, 0>>
      [] d = "Down" -> <<0, 1>>
      [] d = "Right" -> <<1, 0>>

\* Maze::CONTINUE_FRONT and Maze::ROTATE_90
CONTINUE_FRONT == 1
ROTATE_90 == 1000

\* the maps a caller hands to Maze::new_from_map: Grid<bool> of every size
\* up to MaxWidth x MaxHeight and MaxMazeCells cells, true for a wall
MapSizes ==
    {size \in (1..MaxWidth) \X (1..MaxHeight) : size[1] * size[2] <= MaxMazeCells}

Maps ==
    UNION {{[width |-> size[1], height |-> size[2], s |-> cells] :
               cells \in [1..(size[1] * size[2]) -> BOOLEAN]} : size \in MapSizes}

\* the nodes a Maze over a map of the model can name
MazeNodes == (0..(MaxWidth - 1)) \X (0..(MaxHeight - 1)) \X Directions

\* Maze::new_from_map, for a map of at least 2 x 2 cells (height - 2 and
\* width - 2 are usize subtractions). The path grid, which only
\* mark_visited_distance writes and nothing the search calls reads, is left
\* to the log of the notifications.
new_from_map(map) ==
    [map |-> clone(map),
     normal_direction |-> TRUE,
     real_start |-> <<1, map.height - 2, "Right">>,
     real_target |-> <<map.width - 2, 1, "Up">>]

\* Maze::set_direction
set_direction(m, direct) == [m EXCEPT !.normal_direction = direct]

\* Maze::get_starting_node and Maze::get_target_node
Maze_get_starting_node(m) ==
    IF m.normal_direction THEN m.real_start ELSE m.real_target

Maze_get_target_node(m) ==
    IF m.normal_direction THEN m.real_target ELSE m.real_start

\* Maze::get_neighbors_distances below the special case: the node in front
\* if the map has a cell there that is no wall, and the two rotations in
\* place
Moves(m, node) ==
    LET direction == node[3]
        delta == as_delta(direction)
        n == <<node[1] + delta[1], node[2] + delta[2]>>
        is_wall == checked_get(m.map, n[1], n[2])
        front == IF is_wall \in {<< <<FALSE>> >>}
                 THEN << <<<<n[1], n[2], direction>>, CONTINUE_FRONT>> >>
                 ELSE << >>
        turns == IF direction \in {"Up", "Down"}
                 THEN << <<<<node[1], node[2], "Left">>, ROTATE_90>>,
                         <<<<node[1], node[2], "Right">>, ROTATE_90>> >>
                 ELSE << <<<<node[1], node[2], "Up">>, ROTATE_90>>,
                         <<<<node[1], node[2], "Down">>, ROTATE_90>> >>
    IN front \o turns

\* get_neighbors_distances without the special case of the target cell
Maze_get_neighbors_distances_no_end(m, node) == Moves(m, node)

\* Maze::get_neighbors_distances
Maze_get_neighbors_distances(m, node) ==
    LET target == Maze_get_target_node(m)
    IN IF node[1] = target[1] /\ node[2] = target[2]
       THEN << <<target, 0>> >>
       ELSE Moves(m, node)

\* the nodes on the cells of the map
CellNodes(map) ==
    {n \in MazeNodes : n[1] < map.width /\ n[2] < map.height}

\* main: Maze::new_from_map(&map); on a map of fewer than two rows or
\* columns the subtraction overflows and the program panics
NewFromMap(map) ==
    /\ pc = "setup"
    /\ maze = NoMaze
    /\ IF map.width < 2 \/ map.height < 2
       THEN /\ pc' = "panic"
            /\ UNCHANGED maze
       ELSE /\ maze' = new_from_map(map)
            /\ UNCHANGED pc
    /\ UNCHANGED <<graph, target_node, finalized_nodes, unvisited_frontier, current,
                   neighbors, marks, expanded, ret, filtered>>
    /\ UNCHANGED gvars
    /\ UNCHANGED <<bis, wh>>

\* main: graph2.set_direction(false) before the second search
SetDirection(direct) ==
    /\ pc = "setup"
    /\ maze # NoMaze
    /\ maze.normal_direction # direct
    /\ maze' = set_direction(maze, direct)
    /\ UNCHANGED dvars
    /\ UNCHANGED gvars
    /\ UNCHANGED <<bis, wh>>

\* dijkstra(), up to the loop, over the Maze controller; graph holds what
\* get_neighbors_distances answers for each node during this run
StartMaze ==
    /\ pc = "setup"
    /\ maze # NoMaze
    /\ LET first == (Maze_get_starting_node(maze) :> [dist |-> 0, prev |-> << >>])
       IN /\ unvisited_frontier' = first
          /\ filtered' = [frontier |-> first, finalized |-> {},
                          marks |-> << >>, ret |-> << >>]
    /\ finalized_nodes' = {}
    /\ target_node' = Maze_get_target_node(maze)
    /\ graph' = [n \in CellNodes(maze.map) |-> Maze_get_neighbors_distances(maze, n)]
    /\ pc' = "loop"
    /\ UNCHANGED <<current, neighbors, marks, expanded, ret>>
    /\ UNCHANGED gvars
    /\ UNCHANGED cvars

\* ---------------------------------------------- day 18: part 2 bisection
\* generations are u16
U16_MAX == 65535

\* a + b in u16: the sum, or no value when it does not fit
Add16(a, b) == IF a + b > U16_MAX THEN << >> ELSE <<a + b>>

\* main before part 2
NoBisect == [pc |-> "parse", max_generation |-> 0, generation |-> 0,
             blocked_from |-> 0, bisect_prev |-> 0, bisect_next |-> 0]

\* max_generation is 12 for the sample coordinates and 1024 otherwise
MaxGenerations == {12, 1024}

\* the number of lines of the input (generation counts them in u16) and the
\* first generation from which the exit cannot be reached: the values within
\* MaxSpan above each sixteenth of the u16 range, above max_generation + 1
\* and below u16::MAX
Generations ==
    {k * ((U16_MAX + 1) \div 16) + j : k \in 0..15, j \in 0..MaxSpan}
    \cup {m + 1 + j : m \in MaxGenerations, j \in 0..MaxSpan}
    \cup {U16_MAX - j : j \in 0..MaxSpan}

\* dijkstra(&mut maze) == usize::MAX after maze.set_generation(gen), for a
\* map that stops being solvable at generation blocked_from: a cell is a
\* wall from its generation on, so a maze blocked once stays blocked
Unsolvable(gen) == gen >= bis.blocked_from

\* main: part 2 starts with bisect_prev = max_generation and bisect_next =
\* generation
BisectStart ==
    /\ bis.pc = "parse"
    /\ \E max_generation \in MaxGenerations, generation \in Generations,
          blocked_from \in Generations :
          bis' = [pc |-> "bisect", max_generation |-> max_generation,
                  generation |-> generation, blocked_from |-> blocked_from,
                  bisect_prev |-> max_generation, bisect_next |-> generation]
    /\ UNCHANGED <<dvars, gvars, maze, wh>>

\* bisect_test, as a set: the value the u16 arithmetic gives; when
\* bisect_prev + bisect_next does not fit, a build with overflow checks
\* panics (no value) and a build without them wraps
BisectTests(wraps) ==
    IF bis.bisect_next > bis.bisect_prev + 2
    THEN LET sum == Add16(bis.bisect_prev, bis.bisect_next)
         IN IF Len(sum) = 1 THEN <<sum[1] \div 2>>
            ELSE IF wraps
                 THEN <<((bis.bisect_prev + bis.bisect_next) % (U16_MAX + 1)) \div 2>>
                 ELSE << >>
    ELSE <<bis.bisect_prev + 1>>

\* one iteration of the while loop
BisectStep(wraps) ==
    /\ bis.pc = "bisect"
    /\ bis.bisect_next > bis.bisect_prev + 1
    /\ LET bisect_test == BisectTests(wraps)
       IN IF Len(bisect_test) = 0
          THEN bis' = [bis EXCEPT !.pc = "overflow"]
          ELSE IF Unsolvable(bisect_test[1])
               THEN bis' = [bis EXCEPT !.bisect_next = bisect_test[1]]
               ELSE bis' = [bis EXCEPT !.bisect_prev = bisect_test[1]]
    /\ UNCHANGED <<dvars, gvars, maze, wh>>

\* the loop has ended: the blocking generation is found, or the program
\* panics with "bisect didn't converge"
BisectEnd ==
    /\ bis.pc = "bisect"
    /\ ~(bis.bisect_next > bis.bisect_prev + 1)
    /\ IF bis.bisect_next = bis.bisect_prev + 1
       THEN bis' = [bis EXCEPT !.pc = "found"]
       ELSE bis' = [bis EXCEPT !.pc = "not_converged"]
    /\ UNCHANGED <<dvars, gvars, maze, wh>>

\* -------------------------------------------------- day 15: the warehouse
\* enum Movement and Movement::as_delta
Movements == {"Up", "Left", "Down", "Right"}

Movement_as_delta(m) ==
    CASE m = "Up" -> <<0, -1>>
      [] m = "Left" -> <<-1, 0>>
      [] m = "Down" -> <<0, 1>>
      [] m = "Right" -> <<1, 0>>

\* main before the map is parsed
NoWarehouse == [pc |-> "parse", maze |-> NoGrid, boxes |-> NoGrid, trace |-> NoGrid,
                robot |-> <<0, 0>>, fallback |-> FALSE, pushed |-> FALSE]

\* Option<bool>::unwrap_or(true) on what checked_get returned
unwrap_or_true(opt) == IF opt = << << >> >> THEN TRUE ELSE opt[1][1]

\* the while loop of move_once over the stack of boxes: where it ends, or
\* that it does not end. Off the grid checked_get is None and stays None
\* for every further step in the same direction, so the loop goes on.
RECURSIVE end_of_stack(_, _, _)
end_of_stack(boxes, stack, d) ==
    LET c == checked_get(boxes, stack[1], stack[2])
    IN IF c = << << >> >>
       THEN [ends |-> FALSE, stack |-> stack, fallback |-> TRUE]
       ELSE IF c[1][1]
            THEN end_of_stack(boxes, <<stack[1] + d[1], stack[2] + d[2]>>, d)
            ELSE [ends |-> TRUE, stack |-> stack, fallback |-> FALSE]

\* move_once pushing the stack of boxes without looking for a wall behind it
move_once_through_walls(robot, m, walls, boxes) ==
    LET d == Movement_as_delta(m)
        next_pos == <<robot[1] + d[1], robot[2] + d[2]>>
        box_ahead == checked_get(boxes, next_pos[1], next_pos[2])
        wall_ahead == checked_get(walls, next_pos[1], next_pos[2])
    IN IF unwrap_or_true(box_ahead)
       THEN LET scan == end_of_stack(boxes, next_pos, d)
                stack == scan.stack
            IN IF ~scan.ends
               THEN [ends |-> FALSE, panics |-> FALSE, robot |-> robot, boxes |-> boxes,
                     fallback |-> TRUE]
               ELSE LET b1 == set(boxes, next_pos[1], next_pos[2], FALSE)
                        b2 == IF Len(b1) = 0 THEN << >>
                              ELSE set(b1[1], stack[1], stack[2], TRUE)
                    IN IF next_pos[1] < 0 \/ next_pos[2] < 0 \/ stack[1] < 0
                          \/ stack[2] < 0 \/ Len(b2) = 0
                       THEN [ends |-> TRUE, panics |-> TRUE, robot |-> robot,
                             boxes |-> boxes, fallback |-> FALSE]
                       ELSE [ends |-> TRUE, panics |-> FALSE, robot |-> next_pos,
                             boxes |-> b2[1], fallback |-> FALSE]
       ELSE IF unwrap_or_true(wall_ahead)
            THEN [ends |-> TRUE, panics |-> FALSE, robot |-> robot, boxes |-> boxes,
                  fallback |-> wall_ahead = << << >> >>]
            ELSE [ends |-> TRUE, panics |-> FALSE, robot |-> next_pos, boxes |-> boxes,
                  fallback |-> FALSE]

\* move_once (walls is its maze parameter): the new robot position and boxes, whether the scan of the
\* stack ends, whether a set panics, and whether some unwrap_or(true) met a
\* None
move_once(robot, m, walls, boxes) ==
    LET d == Movement_as_delta(m)
        next_pos == <<robot[1] + d[1], robot[2] + d[2]>>
        box_ahead == checked_get(boxes, next_pos[1], next_pos[2])
        wall_ahead == checked_get(walls, next_pos[1], next_pos[2])
    IN IF unwrap_or_true(box_ahead)
       THEN LET scan == end_of_stack(boxes, next_pos, d)
                stack == scan.stack
                wall_behind == checked_get(walls, stack[1], stack[2])
            IN IF ~scan.ends
               THEN [ends |-> FALSE, panics |-> FALSE, robot |-> robot, boxes |-> boxes,
                     fallback |-> TRUE]
               ELSE IF unwrap_or_true(wall_behind)
                    THEN [ends |-> TRUE, panics |-> FALSE, robot |-> robot,
                          boxes |-> boxes, fallback |-> wall_behind = << << >> >>]
                    ELSE LET b1 == set(boxes, next_pos[1], next_pos[2], FALSE)
                             b2 == IF Len(b1) = 0 THEN << >>
                                   ELSE set(b1[1], stack[1], stack[2], TRUE)
                         IN IF next_pos[1] < 0 \/ next_pos[2] < 0 \/ stack[1] < 0
                               \/ stack[2] < 0 \/ Len(b2) = 0
                            THEN [ends |-> TRUE, panics |-> TRUE, robot |-> robot,
                                  boxes |-> boxes, fallback |-> FALSE]
                            ELSE [ends |-> TRUE, panics |-> FALSE, robot |-> next_pos,
                                  boxes |-> b2[1], fallback |-> FALSE]
       ELSE IF unwrap_or_true(wall_ahead)
            THEN [ends |-> TRUE, panics |-> FALSE, robot |-> robot, boxes |-> boxes,
                  fallback |-> wall_ahead = << << >> >>]
            ELSE [ends |-> TRUE, panics |-> FALSE, robot |-> next_pos, boxes |-> boxes,
                  fallback |-> FALSE]

\* the sizes of the warehouses: a border and 1..MaxInterior cells inside
WarehouseSizes ==
    {wh2 \in (3..(MaxInterior + 2)) \X (3..(MaxInterior + 2)) :
        (wh2[1] - 2) * (wh2[2] - 2) <= MaxInterior}

Interior(width, height) == (1..(width - 2)) \X (1..(height - 2))

\* the Grid<bool> of width x height that is true on the cells of set, and
\* on the border if walled
BoolGrid(width, height, cells, walled) ==
    [width |-> width, height |-> height,
     s |-> [i \in 1..(width * height) |->
              LET x == (i - 1) % width
                  y == (i - 1) \div width
              IN \/ <<x, y>> \in cells
                 \/ walled /\ <<x, y>> \notin Interior(width, height)]]

\* main and the head of process_all_movements: a map with walls all along
\* its border, boxes on cells without a wall and the robot on a cell
\* without a wall; the trace starts with the cell of the robot
ParseWarehouse ==
    /\ wh.pc = "parse"
    /\ \E size \in WarehouseSizes :
          \E walls \in SUBSET Interior(size[1], size[2]) :
             \E boxes \in SUBSET (Interior(size[1], size[2]) \ walls) :
                \E robot \in Interior(size[1], size[2]) \ walls :
                   wh' = [pc |-> "moving",
                          maze |-> BoolGrid(size[1], size[2], walls, TRUE),
                          boxes |-> BoolGrid(size[1], size[2], boxes, FALSE),
                          trace |-> BoolGrid(size[1], size[2], {robot}, FALSE),
                          robot |-> robot,
                          fallback |-> FALSE,
                          pushed |-> FALSE]
    /\ UNCHANGED <<dvars, gvars, maze, bis>>

\* one iteration of the for loop of process_all_movements; fallback and
\* pushed say what the call of move_once did
ProcessMovement(m) ==
    /\ wh.pc = "moving"
    /\ LET moved == move_once(wh.robot, m, wh.maze, wh.boxes)
           trace == IF moved.robot[1] < 0 \/ moved.robot[2] < 0 THEN << >>
                    ELSE set(wh.trace, moved.robot[1], moved.robot[2], TRUE)
       IN IF ~moved.ends
          THEN wh' = [wh EXCEPT !.pc = "hang", !.fallback = TRUE, !.pushed = FALSE]
          ELSE IF moved.panics \/ Len(trace) = 0
               THEN wh' = [wh EXCEPT !.pc = "panic", !.fallback = moved.fallback,
                                     !.pushed = FALSE]
               ELSE wh' = [wh EXCEPT !.robot = moved.robot, !.boxes = moved.boxes,
                                     !.trace = trace[1], !.fallback = moved.fallback,
                                     !.pushed = (moved.boxes # wh.boxes)]
    /\ UNCHANGED <<dvars, gvars, maze, bis>>

InitDijkstra ==
    /\ graph = [n \in Nodes |-> << >>]
    /\ target_node = NonExistentNode(graph)
    /\ finalized_nodes = {}
    /\ unvisited_frontier = << >>
    /\ current = [node |-> get_starting_node, dist |-> 0, prev |-> << >>]
    /\ neighbors = << >>
    /\ marks = << >>
    /\ expanded = << >>
    /\ ret = << >>
    /\ pc = "setup"
    /\ filtered = [frontier |-> << >>, finalized |-> {}, marks |-> << >>,
                   ret |-> << >>]

InitCallers ==
    /\ maze = NoMaze
    /\ bis = NoBisect
    /\ wh = NoWarehouse

Init == InitDijkstra /\ InitGrid /\ InitCallers

\* every node a controller of the model knows, and the targets it can name
AllNodes == Nodes \cup DOMAIN BasicGraph

TargetNodes ==
    AllNodes \cup {NonExistentNode([n \in Nodes |-> << >>]), NonExistentNode(BasicGraph)}

\* the steps of dijkstra() itself
Run ==
    \/ \E n \in AllNodes : Visit(n)
    \/ Relax
    \/ EndFor
    \/ Exhausted

NextDijkstra ==
    \/ \E u \in Nodes, v \in Nodes, w \in Weights : AddEdge(u, v, w)
    \/ LoadBasicGraph
    \/ \E t \in TargetNodes : Start(t)
    \/ Run

SpecDijkstra == Init /\ [][NextDijkstra]_vars

SpecGrid == Init /\ [][NextGrid]_vars

SpecGridOps == Init /\ [][NextGridOps]_vars

SpecGridClone == Init /\ [][NextGridClone]_vars

\* day 16: a maze is made from a map, turned around or not, and searched
NextMaze ==
    \/ \E map \in Maps : NewFromMap(map)
    \/ \E direct \in BOOLEAN : SetDirection(direct)
    \/ StartMaze
    \/ \E n \in MazeNodes : Visit(n)
    \/ Relax
    \/ EndFor
    \/ Exhausted

SpecMaze == Init /\ [][NextMaze]_vars

\* day 18, part 2
NextBisect ==
    \/ BisectStart
    \/ \E wraps \in BOOLEAN : BisectStep(wraps)
    \/ BisectEnd

SpecBisect == Init /\ [][NextBisect]_vars

\* day 15: the map is parsed and the robot moves, in any sequence
NextWarehouse ==
    \/ ParseWarehouse
    \/ \E m \in Movements : ProcessMovement(m)

SpecWarehouse == Init /\ [][NextWarehouse]_vars

NextDijkstraHeavy ==
    \/ \E u \in Nodes, v \in Nodes, w \in HeavyWeights : AddHeavyEdge(u, v, w)
    \/ \E t \in TargetNodes : Start(t)
    \/ Run

SpecDijkstraHeavy == Init /\ [][NextDijkstraHeavy]_vars

NextDijkstraFair ==
    \/ \E u \in Nodes, v \in Nodes, w \in Weights : AddEdgeFair(u, v, w)
    \/ LoadBasicGraph
    \/ \E t \in TargetNodes : Start(t)
    \/ Run

\* dijkstra() is sequential code: once called, it takes its next step
SpecDijkstraFair == Init /\ [][NextDijkstraFair]_vars /\ WF_vars(Run)

\* ------------------------------------------------- reference computation
\* the distance of a node no path leads to
NoPath == USIZE_MAX

SetMin(S) == CHOOSE x \in S : \A y \in S : x <= y

\* the candidates of one round of Bellman-Ford for node v: the distance it
\* has and, for every neighbor entry naming v, the distance through it
\* (d is a sequence, node n at index n + 1)
Candidates(g, d, v) ==
    {d[v + 1]} \cup
    UNION {{d[u + 1] + g[u][a][2] : a \in {i \in 1..Len(g[u]) : g[u][i][1] = v}} :
              u \in {x \in DOMAIN g : d[x + 1] # NoPath}}

RECURSIVE BellmanFordRound(_, _, _)
BellmanFordRound(g, d, v) ==
    IF v < 0 THEN << >>
    ELSE Append(BellmanFordRound(g, d, v - 1), SetMin(Candidates(g, d, v)))

RECURSIVE BellmanFord(_, _, _)
BellmanFord(g, d, k) ==
    IF k = 0 THEN d
    ELSE BellmanFord(g, BellmanFordRound(g, d, LastNode(g)), k - 1)

\* the minimum over all paths from the start of the sum of the weights, for
\* every node of g
ShortestDistances(g) ==
    LET d == BellmanFord(g, [i \in 1..Cardinality(DOMAIN g) |->
                                IF i = get_starting_node + 1 THEN 0 ELSE NoPath],
                         Cardinality(DOMAIN g))
    IN [v \in DOMAIN g |-> d[v + 1]]

TargetReachable ==
    /\ target_node \in DOMAIN graph
    /\ ShortestDistances(graph)[target_node] # NoPath

\* the (node, distance) pairs of a sequence of notifications
DistMap(m) == {<<m[i][1], m[i][2]>> : i \in 1..Len(m)}

\* ----------------------------------------------------------------- claims
\* C1: when the target is reachable from the start, dijkstra() returns the
\* minimum over all start-to-target paths of the sum of the edge weights.
C1_ReturnsShortestDistance ==
    (pc = "done" /\ target_node \in DOMAIN graph) =>
        LET shortest == ShortestDistances(graph)[target_node]
        IN shortest # NoPath => ret = <<shortest>>

\* a run that returned a distance shorter than the weight of a direct edge
\* from the start to the target
C1_Witness ==
    /\ pc = "done"
    /\ DOMAIN graph = Nodes
    /\ target_node # get_starting_node
    /\ TargetReachable
    /\ \E i \in 1..Len(graph[get_starting_node]) :
          /\ graph[get_starting_node][i][1] = target_node
          /\ ret # << >>
          /\ graph[get_starting_node][i][2] > ret[1]

\* C2: when the target is not reachable from the start (no reachable node
\* names it as a neighbor and it is not the start), dijkstra() terminates
\* with an empty frontier and returns usize::MAX as a normal value.
C2_UnreachableTargetSentinel ==
    /\ []((pc = "done" /\ ~TargetReachable) =>
            (ret = <<USIZE_MAX>> /\ unvisited_frontier = << >>))
    /\ ((pc = "loop" /\ ~TargetReachable) ~> (pc = "done"))

\* a run that explored several nodes and returned the sentinel
C2_Witness ==
    /\ pc = "done"
    /\ ~TargetReachable
    /\ target_node # get_starting_node
    /\ Len(marks) >= 2
    /\ ret = <<USIZE_MAX>>

\* C3: every mark_visited_distance call made so far carries the true shortest
\* distance of its node, at every loop head and at the return; on the graph of test::basic_dijkstra the recorded distances
\* are {0:0, 1:1, 2:10, 3:6, 4:11}.
C3_MarksCarryShortestDistance ==
    /\ (pc \in {"loop", "done"} /\ marks # << >>) =>
          LET shortest == ShortestDistances(graph)
          IN \A i \in 1..Len(marks) : marks[i][2] = shortest[marks[i][1]]
    /\ (graph = BasicGraph /\ pc = "done" /\ target_node = LastNode(graph)) =>
          DistMap(marks) = {<<0, 0>>, <<1, 1>>, <<2, 10>>, <<3, 6>>, <<4, 11>>}

\* the end of the run of test::basic_dijkstra
C3_Witness ==
    /\ graph = BasicGraph
    /\ pc = "done"
    /\ target_node = LastNode(graph)
    /\ Len(marks) = 5
    /\ ret = <<11>>

\* C4: mark_visited_distance is called at most once for any node, whatever
\* duplicates, self-loops and back-edges the neighbor lists hold.
C4_NotifiedAtMostOnce ==
    \A i \in 1..Len(marks) : \A j \in 1..Len(marks) :
        marks[i][1] = marks[j][1] => i = j

\* a finished run in which an expanded node listed a duplicate entry and an
\* expanded node listed a node finalized before it
C4_Witness ==
    /\ pc = "done"
    /\ \E k \in 1..Len(expanded) :
          \E a \in 1..Len(graph[expanded[k]]) : \E b \in 1..Len(graph[expanded[k]]) :
              a # b /\ graph[expanded[k]][a] = graph[expanded[k]][b]
    /\ \E i \in 1..Len(marks) : \E j \in 1..Len(marks) :
          /\ i < j
          /\ \E k \in 1..Len(expanded) : expanded[k] = marks[j][1]
          /\ \E a \in 1..Len(graph[marks[j][1]]) :
                graph[marks[j][1]][a][1] = marks[i][1]

\* C5: the notification for the target is the last one of the run, the
\* value returned is the distance it carried, and get_neighbors_distances
\* is never called on the target.
C5_StopsAtTarget ==
    /\ \A i \in 1..Len(marks) :
          marks[i][1] = target_node =>
              (i = Len(marks) /\ pc = "done" /\ ret = <<marks[i][2]>>)
    /\ \A k \in 1..Len(expanded) : expanded[k] # target_node

\* a run that returned on the target while nodes were left in the frontier
\* and the target had neighbors to report
C5_Witness ==
    /\ pc = "done"
    /\ target_node \in DOMAIN graph
    /\ target_node \in finalized_nodes
    /\ unvisited_frontier # << >>
    /\ graph[target_node] # << >>
    /\ Len(marks) >= 2

HasZeroWeightEdge ==
    \E u \in DOMAIN graph : \E a \in 1..Len(graph[u]) : graph[u][a][2] = 0

\* C6: on a graph with zero-weight edges (zero-weight cycles included)
\* dijkstra() terminates, and for a zero-weight edge u->v between finalized
\* nodes the finalized distance of v is no larger than that of u.
C6_ZeroWeightEdges ==
    /\ [](\A i \in 1..Len(marks) : \A j \in 1..Len(marks) :
            (\E a \in 1..Len(graph[marks[i][1]]) :
                graph[marks[i][1]][a] = <<marks[j][1], 0>>)
            => marks[j][2] <= marks[i][2])
    /\ ((pc = "loop" /\ HasZeroWeightEdge) ~> (pc = "done"))

\* a finished run over a zero-weight cycle between two distinct nodes, both
\* finalized
C6_Witness ==
    /\ pc = "done"
    /\ \E i \in 1..Len(marks) : \E j \in 1..Len(marks) :
          /\ marks[i][1] # marks[j][1]
          /\ \E a \in 1..Len(graph[marks[i][1]]) :
                graph[marks[i][1]][a] = <<marks[j][1], 0>>
          /\ \E b \in 1..Len(graph[marks[j][1]]) :
                graph[marks[j][1]][b] = <<marks[i][1], 0>>

\* C7: a controller whose lists hold repeated entries, the node itself and
\* nodes already finalized yields the same returned distance and the same
\* per-node finalized distances as the controller with those entries
\* removed; the two runs have the same choices at every selection.
C7_PreFilteringMakesNoDifference ==
    /\ pc = "loop" =>
          MinEntries(filtered.frontier) = MinEntries(unvisited_frontier)
    /\ pc = "done" =>
          /\ filtered.ret = ret
          /\ DistMap(filtered.marks) = DistMap(marks)

\* a finished run in which an expanded node listed itself, a repeated entry
\* and a node finalized earlier
C7_Witness ==
    /\ pc = "done"
    /\ Len(marks) >= 2
    /\ \E k \in 1..Len(expanded) :
          LET n == expanded[k]
          IN /\ \E a \in 1..Len(graph[n]) : graph[n][a][1] = n
             /\ \E a \in 1..Len(graph[n]) : \E b \in 1..Len(graph[n]) :
                   a # b /\ graph[n][a] = graph[n][b]
             /\ Len(PreFilter(graph[n], n, {n})) < Len(graph[n])

\* C8: get_row_slice(y) for y < height returns exactly `width` elements, the
\* x-th being get(x, y); for y >= height it panics.
C8_RowSliceIsTheRow ==
    res.call = "get_row_slice" =>
        LET y == res.args[1]
        IN IF y < grid.height
           THEN /\ res.out # << >>
                /\ Len(res.out[1]) = grid.width
                /\ \A x \in 0..(grid.width - 1) :
                      <<res.out[1][x + 1]>> = get(grid, x, y)
           ELSE res.out = << >>

\* C9: appending N >= 1 rows of width W and calling to_grid yields a Grid of
\* height N and width W whose cell (x, y) is element x of the y-th row.
C9_BuilderRoundTrip ==
    (res.call = "to_grid" /\ rows # << >>) =>
        /\ res.out # << >>
        /\ gpc = "grid"
        /\ grid.height = Len(rows)
        /\ grid.width = Len(rows[1])
        /\ \A y \in 0..(Len(rows) - 1) : \A x \in 0..(Len(rows[1]) - 1) :
              get(grid, x, y) = <<rows[y + 1][x + 1]>>

\* C10: to_grid panics if and only if no row was ever appended.
C10_ToGridPanicsIffNoRows ==
    res.call = "to_grid" => (res.out = << >> <=> rows = << >>)

AppendCalls == {"append_line", "append_char_map_bool", "append_char_map"}

\* C11 as claimed: the first append fixes the width to its row length, a
\* later append of another length panics, and a later append of that length
\* succeeds and adds one to the height, for append_line and both
\* append_char_map variants.
C11_AppendsFixWidth ==
    res.call \in AppendCalls =>
        LET n == Len(res.args[1])
            ok == res.out # << >>
            prior == IF ok THEN Len(rows) - 1 ELSE Len(rows)
        IN IF prior = 0
           THEN ok /\ gb.width = n /\ gb.height = 1
           ELSE IF n # Len(rows[1])
                THEN ~ok /\ gpc = "panic"
                ELSE ok /\ gb.width = n /\ gb.height = prior + 1

HasNonDigit(line) ==
    \E i \in 1..Len(line) : line[i] \notin {Digits[d] : d \in 1..Len(Digits)}

\* C11 amended: GridBuilder<usize>::append_char_map panics on a row holding
\* a character that is no ASCII decimal digit; for every other append the first
\* one fixes the width to its row length, a later one of another length
\* panics, and a later one of that length succeeds and adds one to the
\* height.
C11_AppendsFixWidthOfDigitRows ==
    res.call \in AppendCalls =>
        LET n == Len(res.args[1])
            ok == res.out # << >>
            prior == IF ok THEN Len(rows) - 1 ELSE Len(rows)
        IN IF res.call = "append_char_map" /\ HasNonDigit(res.args[1])
           THEN ~ok /\ gpc = "panic"
           ELSE IF prior = 0
                THEN ok /\ gb.width = n /\ gb.height = 1
                ELSE IF n # Len(rows[1])
                     THEN ~ok /\ gpc = "panic"
                     ELSE ok /\ gb.width = n /\ gb.height = prior + 1

\* a second row of digits appended by append_char_map to a builder whose
\* first row has the same length
C11_Witness ==
    /\ res.call = "append_char_map"
    /\ res.out # << >>
    /\ Len(rows) = 2
    /\ gb.width >= 1
    /\ gb.height = 2

\* (x, y) is a cell of g
InBounds(g, x, y) == 0 <= x /\ x < g.width /\ 0 <= y /\ y < g.height

\* the element of cell (x, y) in the row-major buffer
Cell(g, x, y) == g.s[x + y * g.width + 1]

\* C12: checked_get returns None exactly for x < 0, y < 0, x >= width or
\* y >= height and never panics; get panics for every unsigned pair outside
\* the grid; for every pair inside, checked_get(x, y) = Some(get(x, y)).
C12_CheckedAndPanickingAccess ==
    /\ res.call = "checked_get" =>
          /\ res.out # << >>
          /\ gpc = "grid"
          /\ (res.out[1] = << >>) <=> ~InBounds(grid, res.args[1], res.args[2])
    /\ (res.call = "get" /\ ~InBounds(grid, res.args[1], res.args[2])) =>
          (res.out = << >> /\ gpc = "panic")
    /\ gpc = "grid" =>
          \A x \in 0..(grid.width - 1) : \A y \in 0..(grid.height - 1) :
              /\ get(grid, x, y) # << >>
              /\ checked_get(grid, x, y) = <<get(grid, x, y)>>
              /\ get(grid, x, y) = <<Cell(grid, x, y)>>

\* checked_get returned the element of the last cell of a 2 x 2 grid whose
\* cells are not all equal
C12_Witness ==
    /\ res.call = "checked_get"
    /\ grid.width = 2
    /\ grid.height = 2
    /\ res.args = <<1, 1>>
    /\ res.out = << <<Cell(grid, 1, 1)>> >>
    /\ Cell(grid, 0, 1) # Cell(grid, 1, 1)

\* C13: right after Grid::new(width, height, v), which does not fail for
\* width * height = 0 either, get(x, y) = v for every x < width, y < height.
C13_NewGridHoldsFillValue ==
    res.call = "new" =>
        /\ res.out # << >>
        /\ gpc = "grid"
        /\ grid.width = res.args[1]
        /\ grid.height = res.args[2]
        /\ \A x \in 0..(res.args[1] - 1) : \A y \in 0..(res.args[2] - 1) :
              get(grid, x, y) = <<res.args[3]>>

\* a 2 x 2 grid just made with the fill value 1
C13_Witness ==
    /\ res.call = "new"
    /\ res.args = <<2, 2, 1>>
    /\ gpc = "grid"
    /\ get(grid, 1, 1) = <<1>>

\* the other cells, the width and the height are what they were
FrameKept(x, y) ==
    /\ grid'.width = grid.width
    /\ grid'.height = grid.height
    /\ \A x2 \in 0..(grid.width - 1) : \A y2 \in 0..(grid.height - 1) :
          <<x2, y2>> # <<x, y>> => get(grid', x2, y2) = get(grid, x2, y2)

\* C14: a write to an in-bounds cell, by set or through the reference of
\* get_mut, makes get return the written value and leaves every other cell,
\* the width and the height unchanged; out of bounds set panics and get_mut
\* returns None, the grid unchanged.
C14_WriteChangesOneCell ==
    [][/\ res'.call = "set" =>
             IF InBounds(grid, res'.args[1], res'.args[2])
             THEN /\ res'.out # << >>
                  /\ gpc' = "grid"
                  /\ get(grid', res'.args[1], res'.args[2]) = <<res'.args[3]>>
                  /\ FrameKept(res'.args[1], res'.args[2])
             ELSE /\ res'.out = << >>
                  /\ gpc' = "panic"
                  /\ grid' = grid
       /\ res'.call = "get_mut" =>
             /\ grid' = grid
             /\ res'.out # << >>
             /\ gpc' = "grid"
             /\ (res'.out[1] = << >>) <=> ~InBounds(grid, res'.args[1], res'.args[2])
       /\ res'.call = "write_ref" =>
             /\ InBounds(grid, res'.args[1], res'.args[2])
             /\ get(grid', res'.args[1], res'.args[2]) = <<res'.args[3]>>
             /\ FrameKept(res'.args[1], res'.args[2])
      ]_vars

\* a write through get_mut(1, 0) on a 2 x 2 grid that left another value in
\* cell (0, 1)
C14_Witness ==
    /\ res.call = "write_ref"
    /\ grid.width = 2
    /\ grid.height = 2
    /\ res.args[1] = 1
    /\ res.args[2] = 0
    /\ get(grid, 1, 0) = <<res.args[3]>>
    /\ get(grid, 0, 1) # <<res.args[3]>>

\* C15: from_vec(rows) builds a grid of width rows[0].len() and height
\* rows.len() whose cell (x, y) is rows[y][x] where that element exists and
\* rows[0][0] beyond the end of a shorter row, and panics if a row is longer
\* than the first.
C15_FromVecPadsOrPanics ==
    (res.call = "from_vec" /\ Len(res.args[1]) >= 1) =>
        LET v == res.args[1]
        IN IF \E y \in 1..Len(v) : Len(v[y]) > Len(v[1])
           THEN res.out = << >> /\ gpc = "panic"
           ELSE /\ res.out # << >>
                /\ gpc = "grid"
                /\ grid.width = Len(v[1])
                /\ grid.height = Len(v)
                /\ \A y \in 0..(Len(v) - 1) : \A x \in 0..(Len(v[1]) - 1) :
                      get(grid, x, y) = IF x < Len(v[y + 1])
                                        THEN <<v[y + 1][x + 1]>>
                                        ELSE <<v[1][1]>>

\* C16: values_equal never panics, returns false when either pair is out of
\* bounds, and otherwise returns true exactly when the two cells are equal.
C16_ValuesEqual ==
    /\ res.call = "values_equal" =>
          /\ res.out # << >>
          /\ gpc = "grid"
          /\ res.out[1] = (/\ InBounds(grid, res.args[1], res.args[2])
                           /\ InBounds(grid, res.args[3], res.args[4])
                           /\ Cell(grid, res.args[1], res.args[2])
                                 = Cell(grid, res.args[3], res.args[4]))
    /\ (gpc = "grid" /\ res.call \in {"new", "from_vec", "to_grid", "set", "write_ref", "fill"}) =>
          \A x1 \in SignedXs, x2 \in SignedXs : \A y1 \in SignedYs, y2 \in SignedYs :
              values_equal(grid, x1, y1, x2, y2) =
                  <<(/\ InBounds(grid, x1, y1)
                     /\ InBounds(grid, x2, y2)
                     /\ Cell(grid, x1, y1) = Cell(grid, x2, y2))>>

\* values_equal returned true for two neighbors of a grid that also holds
\* another value
C16_Witness ==
    /\ res.call = "values_equal"
    /\ res.out = <<TRUE>>
    /\ \E i \in 1..Len(grid.s) : grid.s[i] # Cell(grid, res.args[1], res.args[2])

\* C17: for a Grid made by Grid::new, from_vec or to_grid, whatever set,
\* get_mut writes and fill follow, the buffer holds width * height elements
\* and the width and the height stay what they were at construction.
C17_BufferMatchesDimensions ==
    /\ [](Len(grid.s) = grid.width * grid.height)
    /\ [][gpc = "grid" => (grid'.width = grid.width /\ grid'.height = grid.height)]_vars

\* a grid of 2 x 2 cells right after a fill
C17_Witness ==
    /\ res.call = "fill"
    /\ gpc = "grid"
    /\ grid.width = 2
    /\ grid.height = 2
    /\ Len(grid.s) = 4
    /\ \A i \in 1..Len(grid.s) : grid.s[i] = res.args[1]

\* C18: after g2 = g.clone() a set, a get_mut write or a fill on g2 leaves
\* every cell of g as it was, and one on g leaves g2 as it was; the clone
\* starts with the cells of g.
C18_CloneIsIndependent ==
    [][/\ res'.call \in {"g2.set", "g2.get_mut", "g2.write_ref", "g2.fill"} => grid' = grid
       /\ (res'.call \in {"set", "get_mut", "write_ref", "fill"} /\ grid2 # NoGrid) =>
             grid2' = grid2
       /\ res'.call = "clone" => (grid' = grid /\ grid2' = grid)
      ]_vars

\* g2.set changed a cell of the clone of a grid of two cells, and the
\* original holds another value there
C18_Witness ==
    /\ res.call = "g2.set"
    /\ res.out # << >>
    /\ Len(grid.s) = 2
    /\ get(grid2, res.args[1], res.args[2]) = <<res.args[3]>>
    /\ get(grid, res.args[1], res.args[2]) # <<res.args[3]>>

\* C19: at every point of a run no node is both a key of unvisited_frontier
\* and a member of finalized_nodes, and a finalized node stays finalized and
\* is never inserted into the frontier again.
C19_FrontierAndFinalizedDisjoint ==
    /\ []((DOMAIN unvisited_frontier) \cap finalized_nodes = {})
    /\ [][pc # "setup" =>
             /\ finalized_nodes \subseteq finalized_nodes'
             /\ \A n \in finalized_nodes : n \notin DOMAIN unvisited_frontier']_vars

\* the for loop has just passed over an entry naming a finalized node, with
\* other nodes waiting in the frontier
C19_Witness ==
    /\ pc = "for"
    /\ unvisited_frontier # << >>
    /\ Len(neighbors) < Len(graph[current.node])
    /\ graph[current.node][Len(graph[current.node]) - Len(neighbors)][1] \in finalized_nodes
    /\ graph[current.node][Len(graph[current.node]) - Len(neighbors)][1] # current.node

\* the nodes from the start to n along the recorded previous nodes, or the
\* empty sequence if they do not lead to a notification without one within
\* fuel steps
RECURSIVE PathBack(_, _)
PathBack(n, fuel) ==
    IF \A i \in 1..Len(marks) : marks[i][1] # n
    THEN << >>
    ELSE LET prev == marks[CHOOSE i \in 1..Len(marks) : marks[i][1] = n][3]
         IN IF prev = << >> THEN <<n>>
            ELSE IF fuel = 0 THEN << >>
            ELSE LET front == PathBack(prev[1], fuel - 1)
                 IN IF front = << >> THEN << >> ELSE Append(front, n)

\* the sums of the weights of the edges along path, one edge per step
RECURSIVE PathSums(_)
PathSums(path) ==
    IF Len(path) <= 1 THEN {0}
    ELSE LET u == path[Len(path) - 1]
             v == path[Len(path)]
             front == PathSums(SubSeq(path, 1, Len(path) - 1))
         IN {t + graph[u][a][2] :
                t \in front, a \in {i \in 1..Len(graph[u]) : graph[u][i][1] = v}}

\* C20: a notification has no previous node exactly when it is for the start
\* node; otherwise its previous node p was notified earlier, with a distance
\* dp, and the controller lists an edge (n, w) for p with dp + w = d. From
\* the target the previous nodes lead back to the start along a path whose
\* weights sum to the returned distance.
C20_PreviousNodesFormShortestPath ==
    /\ \A i \in 1..Len(marks) :
          /\ (marks[i][3] = << >>) <=> (marks[i][1] = get_starting_node)
          /\ marks[i][3] # << >> =>
                \E j \in 1..(i - 1) :
                    /\ marks[j][1] = marks[i][3][1]
                    /\ \E a \in 1..Len(graph[marks[j][1]]) :
                          /\ graph[marks[j][1]][a][1] = marks[i][1]
                          /\ marks[j][2] + graph[marks[j][1]][a][2] = marks[i][2]
    /\ (pc = "done" /\ target_node \in finalized_nodes) =>
          LET path == PathBack(target_node, Len(marks))
          IN /\ path # << >>
             /\ path[1] = get_starting_node
             /\ path[Len(path)] = target_node
             /\ ret # << >>
             /\ ret[1] \in PathSums(path)

\* a run that returned on a target whose entry was overwritten by a shorter
\* path through a node other than the start
C20_Witness ==
    /\ pc = "done"
    /\ target_node \in finalized_nodes
    /\ Len(PathBack(target_node, Len(marks))) >= 3
    /\ \E a \in 1..Len(graph[get_starting_node]) :
          graph[get_starting_node][a][1] = target_node

\* every outcome dijkstra() can have from a loop head on, one per sequence
\* of selections among the entries of smallest distance: the value returned
\* and the (node, distance) pairs notified
RECURSIVE RunsFrom(_, _, _)
RunsFrom(frontier, finalized, notified) ==
    IF frontier = << >>
    THEN {[ret |-> USIZE_MAX, dist |-> notified]}
    ELSE UNION {
        LET e == frontier[n]
            cur == [node |-> n, dist |-> e.dist, prev |-> e.prev]
            fin == finalized \cup {n}
            rest == RemoveEntry(frontier, n)
            told == notified \cup {<<n, e.dist>>}
        IN IF n = target_node
           THEN {[ret |-> e.dist, dist |-> told]}
           ELSE RunsFrom(RelaxAll(rest, fin, cur, get_neighbors_distances(n)),
                         fin, told)
        : n \in MinEntries(frontier)}

AllRuns == RunsFrom(InitialFrontier, {}, {})

\* C21: for a fixed graph and target, every choice among the frontier
\* entries of smallest distance yields the same returned value and the same
\* distance for every node notified; the run followed is one of them.
C21_TieBreakMakesNoDifference ==
    [](pc = "done" =>
          LET all == AllRuns
          IN /\ [ret |-> ret[1], dist |-> DistMap(marks)] \in all
             /\ \A a \in all : \A b \in all :
                   /\ a.ret = b.ret
                   /\ \A x \in a.dist : \A y \in b.dist :
                         x[1] = y[1] => x[2] = y[2])

\* a finished run on a reachable target of a graph whose ties lead to
\* different sets of notified nodes
C21_Witness ==
    /\ pc = "done"
    /\ TargetReachable
    /\ Len(marks) >= 3
    /\ Cardinality(AllRuns) >= 2

\* C22: when the for loop of finalized node c (distance dc) handles the
\* entry (n, w) of an unfinalized n: n not in the frontier is inserted with
\* (dc + w, Some(c)); n in the frontier with a distance above dc + w gets
\* (dc + w, Some(c)); n in the frontier with a distance of at most dc + w
\* keeps its entry; no other entry changes. An entry naming a finalized node
\* changes nothing.
C22_RelaxationStep ==
    [][(pc = "for" /\ neighbors # << >>) =>
          LET n == Head(neighbors)[1]
              w == Head(neighbors)[2]
              c == current.node
              dc == current.dist
              f == unvisited_frontier
              f2 == unvisited_frontier'
          IN IF n \in finalized_nodes
             THEN f2 = f
             ELSE /\ DOMAIN f2 = (DOMAIN f) \cup {n}
                  /\ \A m \in (DOMAIN f) \ {n} : f2[m] = f[m]
                  /\ n \notin DOMAIN f =>
                        f2[n] = [dist |-> dc + w, prev |-> <<c>>]
                  /\ (n \in DOMAIN f /\ f[n].dist > dc + w) =>
                        f2[n] = [dist |-> dc + w, prev |-> <<c>>]
                  /\ (n \in DOMAIN f /\ f[n].dist <= dc + w) =>
                        f2[n] = f[n]
      ]_vars

\* the entry the for loop handled last
LastHandled == graph[current.node][Len(graph[current.node]) - Len(neighbors)]

\* the for loop has just left alone an entry of the frontier that another
\* node had put there with the very distance the current node offers
C22_Witness ==
    /\ pc = "for"
    /\ Len(neighbors) < Len(graph[current.node])
    /\ LastHandled[1] \in DOMAIN unvisited_frontier
    /\ unvisited_frontier[LastHandled[1]].dist = current.dist + LastHandled[2]
    /\ unvisited_frontier[LastHandled[1]].prev # <<current.node>>

\* the number of mark_visited_distance calls made for node v
Notifications(v) == Cardinality({i \in 1..Len(marks) : marks[i][1] = v})

\* C23: when dijkstra() returns D, every node whose shortest distance from
\* the start is below D has been notified, once; with a target that is never
\* reached (D = usize::MAX) these are all the nodes reachable from the start.
C23_CloserNodesAreNotified ==
    [](pc = "done" =>
        LET shortest == ShortestDistances(graph)
        IN /\ \A v \in DOMAIN graph :
                 shortest[v] < ret[1] => Notifications(v) = 1
           /\ (ret = <<USIZE_MAX>> /\ target_node \notin finalized_nodes) =>
                 \A v \in DOMAIN graph :
                     shortest[v] # NoPath => Notifications(v) = 1)

\* a run with a target that does not exist has returned after it explored
\* a graph all of whose nodes can be reached, some through another node only
C23_Witness ==
    /\ pc = "done"
    /\ DOMAIN graph = Nodes
    /\ target_node = NonExistentNode(graph)
    /\ ret = <<USIZE_MAX>>
    /\ \A v \in Nodes : Notifications(v) = 1
    /\ \E i \in 1..Len(marks) :
          marks[i][3] # << >> /\ marks[i][3] # <<get_starting_node>>

\* every outcome dijkstra() can have from a loop head on over controller c,
\* whose mark_visited_distance records if recording and does nothing if
\* not: the value returned, the notifications in order, and the path map
\* the controller is left with
RECURSIVE RunsOver(_, _, _, _, _)
RunsOver(recording, c, frontier, finalized, seq) ==
    IF frontier = << >>
    THEN {[ret |-> USIZE_MAX, seq |-> seq, path |-> c.path]}
    ELSE UNION {
        LET e == frontier[n]
            cur == [node |-> n, dist |-> e.dist, prev |-> e.prev]
            fin == finalized \cup {n}
            rest == RemoveEntry(frontier, n)
            c2 == IF recording
                  THEN mark_visited_distance(c, n, e.dist, e.prev)
                  ELSE mark_nothing(c, n, e.dist, e.prev)
            told == Append(seq, <<n, e.dist, e.prev>>)
        IN IF n = target_node
           THEN {[ret |-> e.dist, seq |-> told, path |-> c2.path]}
           ELSE RunsOver(recording, c2,
                         RelaxAll(rest, fin, cur, neighbors_of(c2, n)), fin, told)
        : n \in MinEntries(frontier)}

RunsOfController(recording) ==
    RunsOver(recording, [graph |-> graph, path |-> << >>], InitialFrontier, {}, << >>)

\* what the engine does in a run: the value returned and the notifications
Observed(runs) == {[ret |-> o.ret, seq |-> o.seq] : o \in runs}

DirIndex(d) ==
    CASE d = "Up" -> 0 [] d = "Left" -> 1 [] d = "Down" -> 2 [] d = "Right" -> 3

NodeId(map, n) == (n[2] * map.width + n[1]) * 4 + DirIndex(n[3])

DirOrder == <<"Up", "Left", "Down", "Right">>

NodeOf(map, i) ==
    <<(i \div 4) % map.width, (i \div 4) \div map.width, DirOrder[(i % 4) + 1]>>

\* a neighbor list with its nodes replaced by their places
RECURSIVE PlacesOf(_, _)
PlacesOf(map, list) ==
    IF Len(list) = 0 THEN << >>
    ELSE << <<NodeId(map, Head(list)[1]), Head(list)[2]>> >>
            \o PlacesOf(map, Tail(list))

\* the moves of the maze alone, every cell treated alike: forward where
\* there is no wall, and the rotations in place; the list of node i at i + 1
RECURSIVE MovesUpTo(_, _)
MovesUpTo(m, i) ==
    IF i < 0 THEN << >>
    ELSE Append(MovesUpTo(m, i - 1), PlacesOf(m.map, Moves(m, NodeOf(m.map, i))))

MovesGraph(m) ==
    LET lists == MovesUpTo(m, 4 * m.map.width * m.map.height - 1)
    IN [i \in 0..(Len(lists) - 1) |-> lists[i + 1]]

RECURSIVE BellmanFordFix(_, _)
BellmanFordFix(g, d) ==
    LET d2 == BellmanFordRound(g, d, LastNode(g))
    IN IF d2 = d THEN d ELSE BellmanFordFix(g, d2)

\* the least cost of moving from the start of the run to each node of the
\* maze, as a sequence (node n at NodeId(n) + 1)
MoveDistances(m) ==
    BellmanFordFix(MovesGraph(m),
                   [i \in 1..(4 * m.map.width * m.map.height) |->
                       IF i = NodeId(m.map, Maze_get_starting_node(m)) + 1
                       THEN 0 ELSE NoPath])

\* C25: with the Maze controller every node on the target cell has one
\* outgoing edge, of weight 0, to the target node, and dijkstra() returns
\* the minimum over the four orientations o of the least cost of moving
\* from the start to (target.x, target.y, o).
C25_MazeTargetAnyOrientation ==
    /\ (maze # NoMaze /\ pc \in {"loop", "for", "done"}) =>
          \A o \in Directions :
              graph[<<target_node[1], target_node[2], o>>]
                  = << <<target_node, 0>> >>
    /\ (maze # NoMaze /\ pc = "done") =>
          LET d == MoveDistances(maze)
          IN ret = <<SetMin({d[NodeId(maze.map, <<target_node[1], target_node[2], o>>) + 1] :
                              o \in Directions})>>

\* a search that returned a cost below the least cost of reaching the
\* target cell in the orientation of the target node
C25_Witness ==
    /\ maze # NoMaze
    /\ pc = "done"
    /\ ret # <<USIZE_MAX>>
    /\ ret[1] > 0
    /\ ret[1] < MoveDistances(maze)[NodeId(maze.map, target_node) + 1]

\* the inputs the bisection is written for: solvable at max_generation,
\* blocked at the last generation
BisectAssumptions ==
    /\ bis.max_generation < bis.generation
    /\ bis.max_generation < bis.blocked_from
    /\ bis.blocked_from <= bis.generation

\* C26: for a maze solvable at the initial bisect_prev and blocked at the
\* initial bisect_next > bisect_prev, every iteration keeps bisect_prev not
\* blocking, bisect_next blocking and bisect_prev < bisect_next; the loop
\* ends in no other way than with bisect_next = bisect_prev + 1, bisect_next
\* being the first blocking generation, and never panics.
C26_BisectionConverges ==
    BisectAssumptions =>
        /\ bis.pc \in {"bisect", "found"}
        /\ ~Unsolvable(bis.bisect_prev)
        /\ Unsolvable(bis.bisect_next)
        /\ bis.bisect_prev < bis.bisect_next
        /\ bis.pc = "found" =>
              /\ bis.bisect_next = bis.bisect_prev + 1
              /\ bis.bisect_next = bis.blocked_from

\* C27: in a warehouse with walls all along its border, a robot that
\* started inside on a cell without a wall and boxes that started on cells
\* without a wall, no checked_get of move_once is ever called off the grid
\* (no unwrap_or(true) falls back), the scan of the stack of boxes always
\* ends and no set panics; the robot and the boxes stay on cells without a
\* wall.
C27_MoveOnceStaysOnTheGrid ==
    wh.pc # "parse" =>
        /\ wh.pc = "moving"
        /\ ~wh.fallback
        /\ checked_get(wh.maze, wh.robot[1], wh.robot[2]) = << <<FALSE>> >>
        /\ \A x \in 0..(wh.maze.width - 1) : \A y \in 0..(wh.maze.height - 1) :
              checked_get(wh.boxes, x, y) = << <<TRUE>> >>
                  => checked_get(wh.maze, x, y) = << <<FALSE>> >>

\* the robot has pushed a stack of two boxes up against the wall of the
\* border
C27_Witness ==
    /\ wh.pc = "moving"
    /\ wh.pushed
    /\ \E m \in Movements :
          LET d == Movement_as_delta(m)
              b1 == <<wh.robot[1] + d[1], wh.robot[2] + d[2]>>
              b2 == <<b1[1] + d[1], b1[2] + d[2]>>
              w == <<b2[1] + d[1], b2[2] + d[2]>>
              back == <<wh.robot[1] - d[1], wh.robot[2] - d[2]>>
          IN /\ checked_get(wh.boxes, b1[1], b1[2]) = << <<TRUE>> >>
             /\ checked_get(wh.boxes, b2[1], b2[2]) = << <<TRUE>> >>
             /\ w \notin Interior(wh.maze.width, wh.maze.height)
             /\ checked_get(wh.trace, back[1], back[2]) = << <<TRUE>> >>

\* C28: within one run the distances passed to successive
\* mark_visited_distance calls never decrease: every notified distance is at
\* least the distance notified by every earlier call.
C28_NotifiedDistancesNeverDecrease ==
    \A i \in 1..Len(marks) : \A j \in i..Len(marks) : marks[i][2] <= marks[j][2]

\* three notifications, the second with the distance of the first (a tie)
\* and the third with a larger one, the third node having been entered in
\* the frontier before the second was notified
C28_Witness ==
    /\ Len(marks) >= 3
    /\ marks[1][2] = marks[2][2]
    /\ marks[2][2] < marks[3][2]
    /\ marks[3][3] = <<marks[1][1]>>

\* the distance a node was notified with
NotifiedDistance(q) == marks[CHOOSE i \in 1..Len(marks) : marks[i][1] = q][2]

\* for a node n, the distances through the nodes already expanded: the
\* notified distance of such a node q plus the weight of an entry for n in
\* the list q reported
ExpandedCandidates(n) ==
    UNION {{NotifiedDistance(expanded[k]) + graph[expanded[k]][a][2] :
               a \in {i \in 1..Len(graph[expanded[k]]) :
                         graph[expanded[k]][i][1] = n}} :
              k \in 1..Len(expanded)}

\* C29: at the head of every iteration of the while loop, a frontier entry
\* n -> (d, Some(p)) has p in finalized_nodes, d equal to the smallest
\* (distance of q + weight) over the expanded nodes q that reported an entry
\* for n, and d at least the shortest distance of n; an entry with
\* predecessor None is the entry of the start node, with distance 0.
C29_FrontierAtLoopHead ==
    [](pc = "loop" =>
        LET shortest == ShortestDistances(graph)
        IN \A n \in DOMAIN unvisited_frontier :
              LET e == unvisited_frontier[n]
                  through == ExpandedCandidates(n)
              IN IF Len(e.prev) = 0
                 THEN n = get_starting_node /\ e.dist = 0
                 ELSE /\ e.prev[1] \in finalized_nodes
                      /\ through # {}
                      /\ e.dist = SetMin(through)
                      /\ e.dist >= shortest[n])

\* at the head of an iteration the frontier holds a node that two expanded
\* nodes reported with different distances, the later one the smaller
C29_Witness ==
    /\ pc = "loop"
    /\ \E n \in DOMAIN unvisited_frontier :
          /\ Cardinality(ExpandedCandidates(n)) >= 2
          /\ Len(expanded) >= 2
          /\ unvisited_frontier[n].prev = <<expanded[Len(expanded)]>>
          /\ unvisited_frontier[n].dist = SetMin(ExpandedCandidates(n))

\* the sum of the weights along a path, or Over once it is more than
\* usize::MAX
Over == -1

PathAdd(sum, w) == IF sum = Over \/ overflows(sum, w) THEN Over ELSE sum + w

\* <<end node, sum of the weights>> of every simple path of g that goes on
\* from node n, seen being the nodes the path has been through and sum the
\* weights so far
RECURSIVE SimplePaths(_, _, _, _)
SimplePaths(g, n, seen, sum) ==
    {<<n, sum>>} \cup
    UNION {SimplePaths(g, g[n][i][1], seen \cup {g[n][i][1]}, PathAdd(sum, g[n][i][2])) :
              i \in {k \in 1..Len(g[n]) : g[n][k][1] \notin seen}}

\* every simple path of the graph has a sum of weights of at most usize::MAX
SimplePathsWithinUsize ==
    \A n \in DOMAIN graph : \A p \in SimplePaths(graph, n, {n}, 0) : p[2] # Over

\* the sums of the weights of the simple paths from the start to node n
SumsTo(n) ==
    {p[2] : p \in {q \in SimplePaths(graph, get_starting_node, {get_starting_node}, 0) :
                      q[1] = n}}

\* C30: when every simple path of the graph has a sum of weights of at most
\* usize::MAX, the addition of line 103 never overflows (no panic, no
\* wrapped sum), every candidate it computes is the sum of the weights of a
\* simple path from the start to the neighbor, and dijkstra() returns
\* usize::MAX only if the target is unreachable or its shortest distance is
\* usize::MAX itself.
C30_CandidatesArePathSums ==
    SimplePathsWithinUsize =>
        /\ pc # "panic"
        /\ (pc = "for" /\ Len(neighbors) > 0) =>
              (Head(neighbors)[1] \notin finalized_nodes =>
                  /\ ~overflows(Head(neighbors)[2], current.dist)
                  /\ Head(neighbors)[2] + current.dist \in SumsTo(Head(neighbors)[1]))
        /\ ret = <<USIZE_MAX>> =>
              \/ SumsTo(target_node) = {}
              \/ SetMin(SumsTo(target_node)) = USIZE_MAX

\* the run returned usize::MAX as the distance of a target it reached, the
\* sum of usize::MAX - 1 and 1 along a path of two entries, in a graph that
\* has a cycle of more than usize::MAX: the node before the target also
\* reported an entry back to the start, which line 98 skipped
C30_Witness ==
    /\ SimplePathsWithinUsize
    /\ pc = "done"
    /\ ret = <<USIZE_MAX>>
    /\ target_node \in finalized_nodes
    /\ current.node = target_node
    /\ Len(current.prev) > 0
    /\ current.prev[1] # get_starting_node
    /\ NotifiedDistance(current.prev[1]) \in {1, USIZE_MAX - 1}
    /\ \E i \in 1..Len(graph[current.prev[1]]) :
          /\ graph[current.prev[1]][i][1] = get_starting_node
          /\ overflows(graph[current.prev[1]][i][2], NotifiedDistance(current.prev[1]))
====
